---- MODULE Spec2Model ----
(***************************************************************************)
(* A model of the package assembly and distribution engine:                *)
(*   Spec          PackageCreator.Assemble / addComponent / getFilesToSBOM *)
(*   LoadSpec      PackageCreator.LoadPackageDefinition                    *)
(*   OutputSpec    PackageCreator.Output                                   *)
(*   LayoutSpec    the files addComponent writes, two runs                 *)
(*                 (src/src/pkg/packager/creator/normal.go)                *)
(*   PullSpec      Packager.pullOCIZarfPackage, repeated                   *)
(*   OrasSpec      Packager.orasRemote / orasAuthClient                    *)
(*                 (src/src/pkg/packager/oras.go)                          *)
(*   BigBangSpec   bigbang.Run / isValidVersion                            *)
(*   FindURLsSpec  bigbang.findURLs                                        *)
(*                 (src/src/extensions/bigbang/bigbang.go)                 *)
(*   SpinnerSpec   the Spinners of PackageCreator.addComponent             *)
(*   MultiSpinnerSpec  MultiSpinner and its render goroutine               *)
(*                 (src/unnamed/part_005, package message)                 *)
(*   ToolsSpec     workers sharing the tools of NewConcurrencyTools        *)
(*                 (src/src/pkg/utils/concurrency.go)                      *)
(*   SkeletonSpec  ImportChain.fetchOCISkeleton, calls in sequence         *)
(*   RaceSpec      ImportChain.fetchOCISkeleton, two executions            *)
(*                 (src/unnamed/part_006, package composer)                *)
(*                                                                         *)
(* One action stands for one fallible call of the code.  The input of a    *)
(* function is fixed by the Init of its specification; the outcome of      *)
(* every call to an external collaborator (actions.Run, helm, downloads,   *)
(* git, the image puller, the SBOM cataloger, the registry, the file       *)
(* system) is chosen by the environment.  The variables of the functions   *)
(* a specification does not run keep their unused values.                  *)
(***************************************************************************)
EXTENDS Integers, Sequences, FiniteSets, TLC

\* ------------------------------------------------------------------ bounds

\* Largest size of a package: the number of its components plus the number of
\* items they declare (charts, files, data injections, manifests, manifest
\* files, kustomizations, repos, images).
MaxSize == 4

\* ------------------------------------------------------------------ errors

\* An error value is the sequence of the messages of its Unwrap chain,
\* outermost first; a message is a sequence of tokens.
NewError(tok) == << <<tok>> >>

\* fmt.Errorf("<prefix>: %w", err): the text is prefixed, err stays the cause.
Wrap(prefix, err) == << prefix \o err[1] >> \o err

\* fmt.Errorf("<prefix>: %s", err.Error()): the text is prefixed, the cause is lost.
Flatten(prefix, err) == << prefix \o err[1] >>

\* errors.Unwrap
Unwrap(err) == Tail(err)

\* ------------------------------------------------------------------ input

\* A component file as far as Assemble reads it: the declared shasum ("" when
\* none is declared) and the hash of the content its source materializes to.
FileKinds ==
    { [shasum |-> "",   actual |-> "h1"],
      [shasum |-> "h1", actual |-> "h1"],
      [shasum |-> "h1", actual |-> "h2"] }

\* Image references as written in a package definition, split into the parts
\* the reference grammar gives them: a:1, docker.io/library/a:1, b:2 and B:2.
ImageSources ==
    { [host |-> "",          path |-> << "a" >>,            tag |-> "1"],
      [host |-> "docker.io", path |-> << "library", "a" >>, tag |-> "1"],
      [host |-> "",          path |-> << "b" >>,            tag |-> "2"],
      [host |-> "",          path |-> << "B" >>,            tag |-> "2"] }

\* types.ZarfComponent without items; the name is given by the position.
EmptyComponent ==
    [ charts |-> 0, files |-> << >>, dataInjections |-> 0,
      manifests |-> << >>, repos |-> 0, images |-> << >> ]

\* Every component that declares one item more than c (a manifest counts as
\* one item when it is empty, and as its files and kustomizations otherwise).
ExtendComponent(c) ==
    { [c EXCEPT !.charts = @ + 1],
      [c EXCEPT !.dataInjections = @ + 1],
      [c EXCEPT !.repos = @ + 1] }
    \cup { [c EXCEPT !.manifests = Append(@, [files |-> f, kustomizations |-> k])] :
             <<f, k>> \in { <<0, 0>>, <<1, 0>>, <<0, 1>> } }
    \cup { [c EXCEPT !.manifests[m].files = @ + 1] :
             m \in { n \in DOMAIN c.manifests :
                       c.manifests[n].files + c.manifests[n].kustomizations > 0 } }
    \cup { [c EXCEPT !.manifests[m].kustomizations = @ + 1] :
             m \in { n \in DOMAIN c.manifests :
                       c.manifests[n].files + c.manifests[n].kustomizations > 0 } }
    \cup { [c EXCEPT !.files = Append(@, f)] : f \in FileKinds }
    \cup { [c EXCEPT !.images = Append(@, s)] : s \in ImageSources }

RECURSIVE ComponentsUpTo(_)
\* The components that declare at most n items.
ComponentsUpTo(n) ==
    IF n = 0
    THEN { EmptyComponent }
    ELSE LET smaller == ComponentsUpTo(n - 1)
         IN  smaller \cup UNION { ExtendComponent(c) : c \in smaller }

ManifestSize(m) ==
    IF m.files + m.kustomizations = 0 THEN 1 ELSE m.files + m.kustomizations

RECURSIVE ManifestsSize(_)
ManifestsSize(ms) ==
    IF ms = << >> THEN 0 ELSE ManifestSize(Head(ms)) + ManifestsSize(Tail(ms))

\* The number of items a component declares.
ComponentSize(c) ==
    c.charts + Len(c.files) + c.dataInjections + ManifestsSize(c.manifests)
      + c.repos + Len(c.images)

RECURSIVE ComponentLists(_)
\* The component lists of size at most n.
ComponentLists(n) ==
    IF n = 0
    THEN { << >> }
    ELSE { << >> } \cup
         UNION { { << c >> \o rest : rest \in ComponentLists(n - 1 - ComponentSize(c)) } :
                 c \in ComponentsUpTo(n - 1) }

\* pc.cfg: the package's components and the --skip-sbom flag.
Packages ==
    [ components : ComponentLists(MaxSize), skipSBOM : BOOLEAN ]

\* ------------------------------------------------------------------ state

VARIABLES
    pkg,             \* pc.cfg: the package definition being assembled
    stage,           \* the call Assemble is about to make
    ci,              \* index of the component of the current loop iteration
    mi,              \* index of the manifest of the current loop iteration
    i,               \* index of the item of the innermost loop
    pending,         \* the error that made Assemble call onFailure()
    imageList,       \* Assemble's imageList
    attempts,        \* calls of doPull made by helpers.Retry
    pulled,          \* Assemble's pulled: the result of PullAll
    sbomImageList,   \* Assemble's sbomImageList
    componentSBOMs,  \* Assemble's componentSBOMs, by component index
    listingErrors,   \* history: the components with a directory listing that failed
    layoutImages,    \* dst.Images: the images added by AddV1Image
    catalog,         \* the SBOM catalogs sbom.Catalog produced
    returned,        \* Assemble has returned
    err,             \* the error Assemble returned (<< >> is nil)
    log              \* history: the calls made so far, in order

\* The state of one call of PackageCreator.LoadPackageDefinition.
VARIABLES
    loadCfg,         \* pc.cfg as LoadPackageDefinition reads it
    loadStage,       \* the call LoadPackageDefinition is about to make
    warnings,        \* LoadPackageDefinition's warnings
    loadResult,      \* what LoadPackageDefinition returned (pkg, warnings, err)
    loadLog          \* history: the calls LoadPackageDefinition made, in order

assembleVars ==
    << pkg, stage, ci, mi, i, pending, imageList, attempts, pulled,
       sbomImageList, componentSBOMs, listingErrors, layoutImages, catalog,
       returned, err, log >>

\* The state of the pulls of one package reference into one directory.
VARIABLES
    registry,        \* the manifest the reference resolves to, and its layers
    dest,            \* the file at the destination path of every layer
    pullCalls,       \* calls of pullOCIZarfPackage made so far
    pullStage,       \* the call pullOCIZarfPackage is about to make
    layers,          \* pullOCIZarfPackage's layers
    layer,           \* index of the layer of the current loop iteration
    layerContent,    \* pullOCIZarfPackage's layerContent
    pullErr,         \* the error the last call of pullOCIZarfPackage returned
    pullLog          \* history: the steps of the current pull, in order

\* The state of the executions of ImportChain.fetchOCISkeleton that share one
\* OCI cache. Every execution has its own ImportChain for the same package.
VARIABLES
    chain,           \* the nodes of the import chain, head first, tail last
    published,       \* the descriptor the remote manifest holds for the component
    cwd,             \* os.Getwd()
    cacheBlobs,      \* the store under <cache>/oci: the file at each blob and ingest path
    cacheDirs,       \* the directories created in and for the cache
    transfers,       \* history: component layers copied from the registry
    active,          \* the executions that run
    ic,              \* per execution: ic.remote and ic.tail.relativeToHead
    skStage,         \* per execution: the call fetchOCISkeleton is about to make
    fetchCalls,      \* per execution: calls of fetchOCISkeleton made so far
    fetchErr,        \* per execution: the error fetchOCISkeleton returned
    trace            \* history, per execution: the steps of the current call

loadVars == << loadCfg, loadStage, warnings, loadResult, loadLog >>

composerVars ==
    << chain, published, cwd, cacheBlobs, cacheDirs, transfers, active, ic, skStage,
       fetchCalls, fetchErr, trace >>

pullVars ==
    << registry, dest, pullCalls, pullStage, layers, layer, layerContent, pullErr, pullLog >>

\* The state of one call of PackageCreator.Output.
VARIABLES
    outCfg,          \* pc.cfg as Output reads it: components and CreateOpts
    outStage,        \* the call Output is about to make
    outComp,         \* index of the component of the current loop iteration
    archived,        \* dst.Components: the components archived to a tarball
    outPkg,          \* pc.cfg.Pkg: Metadata.AggregateChecksum and Build.Migrations
    zarfYAML,        \* dst.ZarfYAML: the manifest as written (<< >> is no file)
    signature,       \* dst.Signature: the manifest content that was signed
    delivered,       \* what was published or archived as the package
    outErr,          \* the error Output returned (<< >> is nil)
    outLog           \* history: the calls Output made, in order

outputVars ==
    << outCfg, outStage, outComp, archived, outPkg, zarfYAML, signature, delivered,
       outErr, outLog >>

\* The state of two runs of addComponent for the same component definition
\* and the same sources, each into its own package directory.
VARIABLES
    layComponent,    \* the component definition both runs assemble
    laid,            \* per run: the entries written under componentPaths.Base, in order
    layStage         \* per run: "running", "failed" (an error was returned) or "returned"

layoutVars == << layComponent, laid, layStage >>

\* The state of one call of Packager.orasRemote, or of Packager.orasAuthClient
\* alone.
VARIABLES
    orasIn,          \* the arguments and the environment: ref, the docker config, the entry point
    orasStage,       \* the call about to be made
    orasRef,         \* ref, the callee's copy of the reference
    orasCtx,         \* ctx: the scopes the request context carries
    orasRepo,        \* repo: the reference it targets and PlainHTTP
    authClient,      \* the auth client: the host and the credential it answers with
    lookups,         \* history: the keys looked up in the credential store
    orasErr          \* the error returned (<< >> is nil)

orasVars ==
    << orasIn, orasStage, orasRef, orasCtx, orasRepo, authClient, lookups, orasErr >>

\* The state of one call of bigbang.Run.
VARIABLES
    bbVersion,       \* c.Extensions.BigBang.Version
    bbC,             \* c: the rest of c.Extensions.BigBang, c.Manifests, c.Images, c.Repos
    bbIdx,           \* the position of the loop over c.Repos
    bbStage,         \* the call Run is about to make
    bbErr            \* the error Run returned (<< >> is nil)

bigBangVars == << bbVersion, bbC, bbIdx, bbStage, bbErr >>

\* The state of the workers and the coordinator that share the tools of one
\* call of NewConcurrencyTools.
VARIABLES
    plan,            \* per worker: the channels it sends one message on
    toolsCap,        \* the buffer sizes of ProgressChan and ErrorChan
    progressChan,    \* ProgressChan: the messages buffered
    errorChan,       \* ErrorChan: the messages buffered
    waitGroup,       \* the counter of WaitGroup
    ctxDone,         \* Context is cancelled
    wpc,             \* per worker: the statement it is at
    coordinator      \* the statement the coordinator is at

toolsVars == << plan, toolsCap, progressChan, errorChan, waitGroup, ctxDone, wpc, coordinator >>

\* The progress spinners of package message, as one call of addComponent uses
\* them.
VARIABLES
    spCfg,           \* NoProgress, the sections the component has, a spinner of the caller
    activeSpinner,   \* message.activeSpinner: a Spinner, or 0 for nil
    spinners,        \* every Spinner made: has it a printer, and the printer's IsActive
    spStage,         \* the statement addComponent is at
    spSection,       \* index of the section addComponent is at
    spLocal,         \* the variable spinner of the section
    deferred,        \* the Spinners with a deferred Stop, in the order of the defers
    spLog            \* history: the calls addComponent made on package message

spinnerVars == << spCfg, activeSpinner, spinners, spStage, spSection, spLocal, deferred, spLog >>

\* The MultiSpinners of package message, the goroutines NewMultiSpinner starts
\* for them, and the calls of the program that holds them.
VARIABLES
    msNoProgress,    \* message.NoProgress
    activeMultiSpinner, \* message.activeMultiSpinner: a MultiSpinner, or 0 for nil
    multi,           \* every MultiSpinner made: the Status of its rows, its area, was Stop called
    renderer,        \* per MultiSpinner: the statement its render goroutine is at
    rlocal,          \* per MultiSpinner: the slice, idx and row of the goroutine's renderText
    caller,          \* the call the program is in: its statement and its locals
    settled          \* history: the rows << m, index >> that hold the Status RowSuccess
                     \* or RowError gave them

multiSpinnerVars ==
    << msNoProgress, activeMultiSpinner, multi, renderer, rlocal, caller, settled >>

\* findURLs of the Big Bang extension: its input, its result and where the
\* call stands.
VARIABLES
    fuYamls,         \* yamls: the resources utils.SplitYAMLToString made of the template t
    fuUrls,          \* urls, the result of findURLs
    fuStage          \* "called", then "returned", or "panic" once findURLs panicked

findURLsVars == << fuYamls, fuUrls, fuStage >>

\* The state no step of Assemble touches.
notAssemble ==
    << loadVars, pullVars, composerVars, outputVars, layoutVars, orasVars, bigBangVars,
       toolsVars, spinnerVars, multiSpinnerVars, findURLsVars >>

\* The state no step of LoadPackageDefinition touches.
notLoad ==
    << assembleVars, pullVars, composerVars, outputVars, layoutVars, orasVars,
       bigBangVars, toolsVars, spinnerVars, multiSpinnerVars, findURLsVars >>

\* The state no step of pullOCIZarfPackage touches.
notPull ==
    << assembleVars, loadVars, composerVars, outputVars, layoutVars, orasVars,
       bigBangVars, toolsVars, spinnerVars, multiSpinnerVars, findURLsVars >>

\* The state no step of fetchOCISkeleton touches.
notComposer ==
    << assembleVars, loadVars, pullVars, outputVars, layoutVars, orasVars, bigBangVars,
       toolsVars, spinnerVars, multiSpinnerVars, findURLsVars >>

\* The state no step of Output touches.
notOutput ==
    << assembleVars, loadVars, composerVars, pullVars, layoutVars, orasVars,
       bigBangVars, toolsVars, spinnerVars, multiSpinnerVars, findURLsVars >>

\* The state no step of the layout of addComponent touches.
notLayout ==
    << assembleVars, loadVars, composerVars, pullVars, outputVars, orasVars,
       bigBangVars, toolsVars, spinnerVars, multiSpinnerVars, findURLsVars >>

\* The state no step of orasRemote touches.
notOras ==
    << assembleVars, loadVars, composerVars, pullVars, outputVars, layoutVars,
       bigBangVars, toolsVars, spinnerVars, multiSpinnerVars, findURLsVars >>

\* The state no step of bigbang.Run touches.
notBigBang ==
    << assembleVars, loadVars, composerVars, pullVars, outputVars, layoutVars,
       orasVars, toolsVars, spinnerVars, multiSpinnerVars, findURLsVars >>

\* The state no step of the workers of NewConcurrencyTools touches.
notTools ==
    << assembleVars, loadVars, composerVars, pullVars, outputVars, layoutVars,
       orasVars, bigBangVars, spinnerVars, multiSpinnerVars, findURLsVars >>

\* The state no step of the spinner calls of addComponent touches.
notSpinner ==
    << assembleVars, loadVars, composerVars, pullVars, outputVars, layoutVars,
       orasVars, bigBangVars, toolsVars, multiSpinnerVars, findURLsVars >>

\* The state no step of the MultiSpinner calls touches.
notMultiSpinner ==
    << assembleVars, loadVars, composerVars, pullVars, outputVars, layoutVars,
       orasVars, bigBangVars, toolsVars, spinnerVars, findURLsVars >>

\* The state no step of findURLs touches.
notFindURLs ==
    << assembleVars, loadVars, composerVars, pullVars, outputVars, layoutVars,
       orasVars, bigBangVars, toolsVars, spinnerVars, multiSpinnerVars >>

vars == << assembleVars, notAssemble >>

Nil == << >>

Components == pkg.components

\* component.Name
ComponentName(k) == "component-" \o ToString(k)

\* One call, as the history records it.
Event(op, c, m, n, ok) == [op |-> op, c |-> c, m |-> m, n |-> n, ok |-> ok]

\* LoadPackageDefinition is not running.
LoadUnused ==
    /\ loadCfg = Nil
    /\ loadStage = "unused"
    /\ warnings = << >>
    /\ loadResult = Nil
    /\ loadLog = << >>

\* pullOCIZarfPackage is not running.
PullUnused ==
    /\ registry = Nil
    /\ dest = << >>
    /\ pullCalls = 0
    /\ pullStage = "unused"
    /\ layers = << >>
    /\ layer = 0
    /\ layerContent = << >>
    /\ pullErr = Nil
    /\ pullLog = << >>

\* fetchOCISkeleton is not running.
ComposerUnused ==
    /\ chain = << >>
    /\ published = Nil
    /\ cwd = << >>
    /\ cacheBlobs = << >>
    /\ cacheDirs = {}
    /\ transfers = 0
    /\ active = {}
    /\ ic = << >>
    /\ skStage = << >>
    /\ fetchCalls = << >>
    /\ fetchErr = << >>
    /\ trace = << >>

\* Output is not running.
OutputUnused ==
    /\ outCfg = Nil
    /\ outStage = "unused"
    /\ outComp = 0
    /\ archived = {}
    /\ outPkg = Nil
    /\ zarfYAML = Nil
    /\ signature = Nil
    /\ delivered = Nil
    /\ outErr = Nil
    /\ outLog = << >>

\* the layout of addComponent is not running.
LayoutUnused ==
    /\ layComponent = Nil
    /\ laid = << >>
    /\ layStage = << >>

\* orasRemote is not running.
OrasUnused ==
    /\ orasIn = Nil
    /\ orasStage = "unused"
    /\ orasRef = Nil
    /\ orasCtx = Nil
    /\ orasRepo = Nil
    /\ authClient = Nil
    /\ lookups = << >>
    /\ orasErr = Nil

\* bigbang.Run is not running.
BigBangUnused ==
    /\ bbVersion = ""
    /\ bbC = << >>
    /\ bbIdx = 0
    /\ bbStage = "unused"
    /\ bbErr = Nil

\* the workers of NewConcurrencyTools is not running.
ToolsUnused ==
    /\ plan = << >>
    /\ toolsCap = Nil
    /\ progressChan = << >>
    /\ errorChan = << >>
    /\ waitGroup = 0
    /\ ctxDone = FALSE
    /\ wpc = << >>
    /\ coordinator = "unused"

\* the spinner calls of addComponent is not running.
SpinnerUnused ==
    /\ spCfg = Nil
    /\ activeSpinner = 0
    /\ spinners = << >>
    /\ spStage = "unused"
    /\ spSection = 0
    /\ spLocal = 0
    /\ deferred = << >>
    /\ spLog = << >>

\* No MultiSpinner call is running.
MultiSpinnerUnused ==
    /\ msNoProgress = FALSE
    /\ activeMultiSpinner = 0
    /\ multi = << >>
    /\ renderer = << >>
    /\ rlocal = << >>
    /\ caller = << >>
    /\ settled = { }

\* findURLs is not running.
FindURLsUnused ==
    /\ fuYamls = << >>
    /\ fuUrls = << >>
    /\ fuStage = "idle"

Init ==
    /\ LoadUnused
    /\ PullUnused
    /\ ComposerUnused
    /\ OutputUnused
    /\ LayoutUnused
    /\ OrasUnused
    /\ BigBangUnused
    /\ ToolsUnused
    /\ SpinnerUnused
    /\ MultiSpinnerUnused
    /\ FindURLsUnused
    /\ pkg \in Packages
    /\ stage = IF Len(pkg.components) = 0 THEN "unique" ELSE "create"
    /\ ci = 1
    /\ mi = 0
    /\ i = 0
    /\ pending = Nil
    /\ imageList = << >>
    /\ attempts = 0
    /\ pulled = << >>
    /\ sbomImageList = << >>
    /\ componentSBOMs = {}
    /\ listingErrors = {}
    /\ layoutImages = << >>
    /\ catalog = << >>
    /\ returned = FALSE
    /\ err = Nil
    /\ log = << >>

\* ------------------------------------------------------- addComponent

\* A position in Assemble: the call to make and the loop indices it is made at.
Pos(s, m, n) == [stage |-> s, mi |-> m, i |-> n]

Goto(pos) ==
    /\ stage' = pos.stage
    /\ mi' = pos.mi
    /\ i' = pos.i

\* Assemble returns e (Nil for success).
Return(e) ==
    /\ returned' = TRUE
    /\ err' = e
    /\ Goto(Pos("returned", 0, 0))

\* Mutant: git repos are pulled before the manifests are materialized.
LoopAfter_ReposFirst(s) ==
    CASE s = "charts"         -> "files"
      [] s = "files"          -> "dataInjections"
      [] s = "dataInjections" -> "repos"
      [] s = "repos"          -> "manifestFiles"
      [] s = "manifestFiles"  -> "after"

\* The loop of addComponent that follows the loop s in the text of the function
\* (the two loops of one manifest are "manifestFiles" and "kustomizations").
LoopAfter(s) ==
    CASE s = "charts"         -> "files"
      [] s = "files"          -> "dataInjections"
      [] s = "dataInjections" -> "manifestFiles"
      [] s = "manifestFiles"  -> "repos"
      [] s = "repos"          -> "after"

\* The number of iterations of loop s of component c (of manifest m).
LoopLen(c, s, m) ==
    CASE s = "charts"         -> c.charts
      [] s = "files"          -> Len(c.files)
      [] s = "dataInjections" -> c.dataInjections
      [] s = "manifestFiles"  -> c.manifests[m].files
      [] s = "kustomizations" -> c.manifests[m].kustomizations
      [] s = "repos"          -> c.repos

RECURSIVE Seek(_, _, _, _)
\* The next call addComponent makes for component c when control reaches
\* iteration n of loop s (of manifest m): loops without a further iteration
\* fall through to the code that follows them.
Seek(c, s, m, n) ==
    IF s = "after"
    THEN Pos("after", 0, 0)
    ELSE IF s \in {"manifestFiles", "kustomizations"} /\ m > Len(c.manifests)
    THEN Seek(c, LoopAfter("manifestFiles"), 0, 1)
    ELSE IF n <= LoopLen(c, s, m)
    THEN Pos(s, m, n)
    ELSE CASE s = "manifestFiles"  -> Seek(c, "kustomizations", m, 1)
           [] s = "kustomizations" -> Seek(c, "manifestFiles", m + 1, 1)
           [] OTHER ->
                LET t == LoopAfter(s)
                IN  Seek(c, t, IF t = "manifestFiles" THEN 1 ELSE 0, 1)

\* One fallible call of addComponent for the current component: on success
\* control moves to next, on failure addComponent returns failure to Assemble.
AddComponentCall(op, ok, failure, next) ==
    /\ log' = Append(log, Event(op, ci, mi, i, ok))
    /\ IF ok
       THEN /\ Goto(next)
            /\ pending' = pending
       ELSE /\ Goto(Pos("addComponentFailed", 0, 0))
            /\ pending' = failure
    /\ UNCHANGED << notAssemble, listingErrors, pkg, ci, imageList, attempts, pulled, sbomImageList,
                    componentSBOMs, layoutImages, catalog, returned, err >>

\* dst.Components.Create(component)
CreateComponentPaths ==
    /\ stage = "create"
    /\ \E ok \in BOOLEAN :
         AddComponentCall("create", ok, NewError("Components.Create"), Pos("before", 0, 0))

\* Mutant: the error of the before actions is dropped and the component goes on.
RunBefore_ErrorDropped ==
    /\ stage = "before"
    /\ \E ok \in BOOLEAN :
         /\ log' = Append(log, Event("before", ci, mi, i, ok))
         /\ Goto(Seek(Components[ci], "charts", 0, 1))
         /\ UNCHANGED << notAssemble, listingErrors,
                         pkg, ci, pending, imageList, attempts, pulled, sbomImageList,
                         componentSBOMs, layoutImages, catalog, returned, err >>

\* actions.Run(pc.cfg, onCreate.Defaults, onCreate.Before, nil)
RunBefore ==
    /\ stage = "before"
    /\ \E ok \in BOOLEAN :
         AddComponentCall("before", ok,
             Wrap(<< "unable to run component before action" >>, NewError("actions.Run")),
             Seek(Components[ci], "charts", 0, 1))

\* helmCfg.PackageChart for chart i
PackageChart ==
    /\ stage = "charts"
    /\ \E ok \in BOOLEAN :
         AddComponentCall("charts", ok, NewError("PackageChart"),
             Seek(Components[ci], "charts", 0, i + 1))

\* The errors addComponent returns when it cannot materialize a file: the
\* download, extraction, copy or rename of the file's branch failed.
FileFailures ==
    { Flatten(<< "ErrFileNameExtract" >>, NewError("ExtractBasePathFromURL")),
      Flatten(<< "ErrDownloading" >>, NewError("DownloadToFile")),
      Flatten(<< "ErrFileExtract" >>, NewError("archiver.Extract")),
      Wrap(<< "unable to copy file" >>, NewError("CreatePathAndCopy")),
      Flatten(<< "ErrWritingFile" >>, NewError("os.Rename")) }

\* utils.SHAsMatch(dst, file.Shasum), called only when a shasum is declared.
SHAsMatch(file) == file.shasum = file.actual

\* Mutant: the declared shasum is never compared with the content.
ShasumGate_Open(file) == TRUE

\* Whether the shasum gate lets the materialized file through.
ShasumGate(file) == file.shasum = "" \/ SHAsMatch(file)

\* One iteration of the files loop: materialize file i, then check its shasum.
ResolveFile ==
    /\ stage = "files"
    /\ LET file == Components[ci].files[i]
           next == Seek(Components[ci], "files", 0, i + 1)
       IN  \/ \E failure \in FileFailures :
                AddComponentCall("files", FALSE, failure, next)
           \/ AddComponentCall("files", ShasumGate(file), NewError("SHAsMatch"), next)

DataInjectionFailures ==
    { Flatten(<< "ErrDownloading" >>, NewError("DownloadToFile")),
      Flatten(<< "unable to copy data injection" >>, NewError("CreatePathAndCopy")) }

\* One iteration of the data injections loop.
CopyDataInjection ==
    /\ stage = "dataInjections"
    /\ LET next == Seek(Components[ci], "dataInjections", 0, i + 1)
       IN  \/ \E failure \in DataInjectionFailures :
                AddComponentCall("dataInjections", FALSE, failure, next)
           \/ AddComponentCall("dataInjections", TRUE, Nil, next)

ManifestFileFailures ==
    { Flatten(<< "ErrDownloading" >>, NewError("DownloadToFile")),
      Wrap(<< "unable to copy manifest" >>, NewError("CreatePathAndCopy")) }

\* One iteration of the loop over manifest.Files of manifest mi.
CopyManifestFile ==
    /\ stage = "manifestFiles"
    /\ LET next == Seek(Components[ci], "manifestFiles", mi, i + 1)
       IN  \/ \E failure \in ManifestFileFailures :
                AddComponentCall("manifestFiles", FALSE, failure, next)
           \/ AddComponentCall("manifestFiles", TRUE, Nil, next)

\* kustomize.Build for kustomization i of manifest mi
BuildKustomization ==
    /\ stage = "kustomizations"
    /\ \E ok \in BOOLEAN :
         AddComponentCall("kustomizations", ok,
             Wrap(<< "unable to build kustomization" >>, NewError("kustomize.Build")),
             Seek(Components[ci], "kustomizations", mi, i + 1))

\* gitCfg.Pull for repo i
PullRepo ==
    /\ stage = "repos"
    /\ \E ok \in BOOLEAN :
         AddComponentCall("repos", ok,
             Wrap(<< "unable to pull git repo" >>, NewError("git.Pull")),
             Seek(Components[ci], "repos", 0, i + 1))

\* Mutant: an error of the after actions is returned without running onFailure().
RunAfter_NoOnFailure ==
    /\ stage = "after"
    /\ \E ok \in BOOLEAN :
         /\ log' = Append(log, Event("after", ci, mi, i, ok))
         /\ IF ok
            THEN /\ Goto(Pos("onSuccess", 0, 0))
                 /\ UNCHANGED << returned, err >>
            ELSE Return(Wrap(<< "unable to add component", ComponentName(ci),
                                "unable to run component after action" >>,
                             NewError("actions.Run")))
         /\ UNCHANGED << notAssemble, listingErrors,
                         pkg, ci, pending, imageList, attempts, pulled, sbomImageList,
                         componentSBOMs, layoutImages, catalog >>

\* Mutant: addComponent drops the error of the after actions, so that Assemble
\* goes on to the success actions.
RunAfter_ErrorDropped ==
    /\ stage = "after"
    /\ \E ok \in BOOLEAN :
         /\ log' = Append(log, Event("after", ci, mi, i, ok))
         /\ Goto(Pos("onSuccess", 0, 0))
    /\ UNCHANGED << notAssemble, listingErrors, pkg, ci, pending, imageList, attempts, pulled,
                    sbomImageList, componentSBOMs, layoutImages, catalog, returned, err >>

\* actions.Run(pc.cfg, onCreate.Defaults, onCreate.After, nil); on success
\* addComponent returns nil and Assemble goes on to the success actions.
RunAfter ==
    /\ stage = "after"
    /\ \E ok \in BOOLEAN :
         AddComponentCall("after", ok,
             Wrap(<< "unable to run component after action" >>, NewError("actions.Run")),
             Pos("onSuccess", 0, 0))

addComponent ==
    \/ CreateComponentPaths
    \/ RunBefore
    \/ PackageChart
    \/ ResolveFile
    \/ CopyDataInjection
    \/ CopyManifestFile
    \/ BuildKustomization
    \/ PullRepo
    \/ RunAfter

\* ----------------------------------------------------------- Assemble

\* Mutant: the loop over the components ends after its first iteration.
AfterComponent_FirstOnly(k) == "unique"

\* The statement Assemble reaches when the loop body for component k is done.
AfterComponent(k) == IF k < Len(Components) THEN "create" ELSE "unique"

\* Mutant: after the failure actions the loop continues with the next component.
RunOnFailure_Continues ==
    /\ stage \in { "addComponentFailed", "onSuccessFailed" }
    /\ \E ok \in BOOLEAN :
         /\ log' = Append(log, Event("onFailure", ci, 0, 0, ok))
         /\ Goto(Pos(AfterComponent(ci), 0, 0))
         /\ ci' = ci + 1
    /\ UNCHANGED << notAssemble, listingErrors,
                    pkg, pending, imageList, attempts, pulled, sbomImageList,
                    componentSBOMs, layoutImages, catalog, returned, err >>

\* The error Assemble returns for an error e of addComponent for component k.
AddComponentError(k, e) == Wrap(<< "unable to add component", ComponentName(k) >>, e)

\* The error Assemble returns for an error e of the success actions.
OnSuccessError(e) == Wrap(<< "unable to run component success action" >>, e)

\* Mutant: an error of the failure actions replaces the error being returned.
OnFailureResult_Propagated(e, ok) ==
    IF ok THEN e
    ELSE Wrap(<< "unable to run component failure action" >>, NewError("actions.Run"))

\* What Assemble returns after onFailure() ran with outcome ok, when e is the
\* error of the failed call: the closure logs an error of the failure actions
\* and has no result.
OnFailureResult(e, ok) == e

\* onFailure(): actions.Run(pc.cfg, onCreate.Defaults, onCreate.OnFailure, nil),
\* followed by the return of the error that made Assemble call it.
RunOnFailure ==
    /\ stage \in { "addComponentFailed", "onSuccessFailed" }
    /\ \E ok \in BOOLEAN :
         /\ log' = Append(log, Event("onFailure", ci, 0, 0, ok))
         /\ Return(OnFailureResult(IF stage = "addComponentFailed"
                                   THEN AddComponentError(ci, pending)
                                   ELSE OnSuccessError(pending), ok))
    /\ UNCHANGED << notAssemble, listingErrors,
                    pkg, ci, pending, imageList, attempts, pulled, sbomImageList,
                    componentSBOMs, layoutImages, catalog >>

\* The statement Assemble reaches when the success actions of a component ran.
AfterOnSuccess == IF pkg.skipSBOM THEN "images" ELSE "getFilesToSBOM"

\* Mutant: an error of the success actions is returned without running
\* onFailure().
RunOnSuccess_NoOnFailure ==
    /\ stage = "onSuccess"
    /\ \E ok \in BOOLEAN :
         /\ log' = Append(log, Event("onSuccess", ci, 0, 0, ok))
         /\ IF ok
            THEN /\ Goto(Pos(AfterOnSuccess, 0, 0))
                 /\ UNCHANGED << returned, err >>
            ELSE Return(OnSuccessError(NewError("actions.Run")))
    /\ UNCHANGED << notAssemble, listingErrors, pkg, ci, pending, imageList, attempts, pulled,
                    sbomImageList, componentSBOMs, layoutImages, catalog >>

\* actions.Run(pc.cfg, onCreate.Defaults, onCreate.OnSuccess, nil)
RunOnSuccess ==
    /\ stage = "onSuccess"
    /\ \E ok \in BOOLEAN :
         /\ log' = Append(log, Event("onSuccess", ci, 0, 0, ok))
         /\ IF ok
            THEN /\ Goto(Pos(AfterOnSuccess, 0, 0))
                 /\ pending' = pending
            ELSE /\ Goto(Pos("onSuccessFailed", 0, 0))
                 /\ pending' = NewError("actions.Run")
    /\ UNCHANGED << notAssemble, listingErrors, pkg, ci, imageList, attempts, pulled, sbomImageList,
                    componentSBOMs, layoutImages, catalog, returned, err >>

\* The component declares a path appendSBOMFiles is called with: one per file
\* and one per data injection.
HasSBOMPaths(c) == Len(c.files) + c.dataInjections > 0

\* len(componentSBOM.Files) > 0: a path that is no directory adds itself, a
\* directory adds the files listed under it, which may be none; some tells
\* whether any path of the component added a file.
HasSBOMFiles(c, some) == HasSBOMPaths(c) /\ some

\* The error getFilesToSBOM returns when the listing of a directory succeeded
\* (listed) or failed: appendSBOMFiles drops the error of
\* utils.RecursiveFileList (files, _ := ...), so there is none either way.
ListingResult(listed) == Nil

\* pc.getFilesToSBOM(component, dst): fails when dst.Components.Create does;
\* then one path per file and data injection is added, a directory by the
\* files utils.RecursiveFileList lists under it: none when every path is a
\* directory that holds no file. A listing that failed leaves the files it
\* returned with the error, some or none.
GetFilesToSBOM ==
    /\ stage = "getFilesToSBOM"
    /\ \E ok, listed, some \in BOOLEAN :
         /\ listed \/ (ok /\ HasSBOMPaths(Components[ci]))
         /\ log' = Append(log, Event("getFilesToSBOM", ci, 0, 0,
                                     ok /\ ListingResult(listed) = Nil))
         /\ listingErrors' = IF listed THEN listingErrors ELSE listingErrors \cup {ci}
         /\ IF ~ok
            THEN /\ Return(Wrap(<< "unable to create component SBOM" >>,
                                NewError("Components.Create")))
                 /\ UNCHANGED componentSBOMs
            ELSE IF ListingResult(listed) # Nil
            THEN /\ Return(Wrap(<< "unable to create component SBOM" >>,
                                ListingResult(listed)))
                 /\ UNCHANGED componentSBOMs
            ELSE /\ componentSBOMs' =
                        IF HasSBOMFiles(Components[ci], some)
                        THEN componentSBOMs \cup {ci} ELSE componentSBOMs
                 /\ Goto(Pos("images", 0, 0))
                 /\ UNCHANGED << returned, err >>
    /\ UNCHANGED << notAssemble, pkg, ci, pending, imageList, attempts, pulled, sbomImageList,
                    layoutImages, catalog >>

\* The reference as written: [host/]path[/path...]:tag.
RECURSIVE JoinPath(_)
JoinPath(path) ==
    IF Len(path) = 1 THEN path[1] ELSE path[1] \o "/" \o JoinPath(Tail(path))

ImageString(src) ==
    (IF src.host = "" THEN "" ELSE src.host \o "/") \o JoinPath(src.path) \o ":" \o src.tag

\* Repository path components must be lowercase.
ValidPathComponents == { "a", "b", "library" }

\* transform.ParseImageRef: the normalized reference of src, or an error.  A
\* reference without a host is one of docker.io, and a one-component path on
\* docker.io is under library/.
ParseImageRef(src) ==
    IF \E k \in DOMAIN src.path : src.path[k] \notin ValidPathComponents
    THEN [ref |-> "", err |-> NewError("ParseAnyReference")]
    ELSE LET host == IF src.host = "" THEN "docker.io" ELSE src.host
             path == IF host = "docker.io" /\ Len(src.path) = 1
                     THEN << "library" >> \o src.path ELSE src.path
         IN  [ref |-> host \o "/" \o JoinPath(path) \o ":" \o src.tag, err |-> Nil]

RECURSIVE ParseImages(_)
\* The loop over component.Images: the references appended to imageList, up to
\* the first source that does not parse, and the error returned for it.
ParseImages(srcs) ==
    IF srcs = << >>
    THEN [refs |-> << >>, err |-> Nil]
    ELSE LET first == ParseImageRef(Head(srcs))
         IN  IF first.err # Nil
             THEN [refs |-> << >>,
                   err |-> Wrap(<< "failed to create ref for image", ImageString(Head(srcs)) >>,
                                first.err)]
             ELSE LET rest == ParseImages(Tail(srcs))
                  IN  [refs |-> << first.ref >> \o rest.refs, err |-> rest.err]

\* The end of the loop body: component.Images is parsed into imageList, and
\* the loop moves on to the next component.
CollectImages ==
    /\ stage = "images"
    /\ LET parsed == ParseImages(Components[ci].images)
       IN  /\ log' = Append(log, Event("images", ci, 0, 0, parsed.err = Nil))
           /\ imageList' = imageList \o parsed.refs
           /\ IF parsed.err = Nil
              THEN /\ Goto(Pos(AfterComponent(ci), 0, 0))
                   /\ ci' = ci + 1
                   /\ UNCHANGED << returned, err >>
              ELSE /\ Return(parsed.err)
                   /\ UNCHANGED ci
    /\ UNCHANGED << notAssemble, listingErrors,
                    pkg, pending, attempts, pulled, sbomImageList, componentSBOMs,
                    layoutImages, catalog >>

RECURSIVE Unique(_)
\* helpers.Unique: the first occurrence of every element, in order.
Unique(s) ==
    IF s = << >>
    THEN << >>
    ELSE LET init == Unique(SubSeq(s, 1, Len(s) - 1))
             last == s[Len(s)]
         IN  IF \E k \in DOMAIN init : init[k] = last THEN init ELSE Append(init, last)

\* The statement Assemble reaches after deduplicating the image list l.
AfterUnique(l) == IF Len(l) > 0 THEN "pull" ELSE "catalog"

\* Mutant: the image list is pulled as collected, duplicates included.
UniqueImages_NoDedup ==
    /\ stage = "unique"
    /\ imageList' = imageList
    /\ Goto(Pos(AfterUnique(imageList'), 0, 0))
    /\ UNCHANGED << notAssemble, listingErrors,
                    pkg, ci, pending, attempts, pulled, sbomImageList, componentSBOMs,
                    layoutImages, catalog, returned, err, log >>

\* imageList = helpers.Unique(imageList), and the test len(imageList) > 0.
UniqueImages ==
    /\ stage = "unique"
    /\ imageList' = Unique(imageList)
    /\ Goto(Pos(AfterUnique(imageList'), 0, 0))
    /\ UNCHANGED << notAssemble, listingErrors,
                    pkg, ci, pending, attempts, pulled, sbomImageList, componentSBOMs,
                    layoutImages, catalog, returned, err, log >>

\* Mutant: one attempt fewer.
PullRetries_Two == 3 - 1

\* The retries argument of helpers.Retry(doPull, 3, 5*time.Second, message.Warnf).
PullRetries == 3

\* helpers.Retry calls fn again after a failure while fewer than retries calls were made.
RetryAgain(made, retries) == made < retries

\* The outcomes of imgConfig.PullAll() for the image list l: one ImgInfo per
\* image, in list order, each with or without image layers.
PullResults(l) ==
    { [k \in DOMAIN l |-> [ref |-> l[k], hasImageLayers |-> k \in layered]] :
        layered \in SUBSET DOMAIN l }

\* One call of doPull under helpers.Retry: pulled, err = imgConfig.PullAll().
\* The error of PullAll is the callee's own, like that of every other call
\* Assemble makes; the text Assemble puts before it is the fixed one.
doPull ==
    /\ stage = "pull"
    /\ attempts' = attempts + 1
    /\ \/ \E result \in PullResults(imageList) :
            /\ log' = Append(log, Event("PullAll", 0, 0, attempts', TRUE))
            /\ pulled' = result
            /\ Goto(Pos("addImages", 0, 1))
            /\ UNCHANGED << returned, err >>
       \/ /\ log' = Append(log, Event("PullAll", 0, 0, attempts', FALSE))
          /\ UNCHANGED pulled
          /\ IF RetryAgain(attempts', PullRetries)
             THEN UNCHANGED << stage, mi, i, returned, err >>
             ELSE Return(Wrap(<< "unable to pull images after 3 attempts" >>,
                              NewError("PullAll")))
    /\ UNCHANGED << notAssemble, listingErrors,
                    pkg, ci, pending, imageList, sbomImageList, componentSBOMs,
                    layoutImages, catalog >>

\* Mutant: every pulled image is appended to sbomImageList, whether or not it
\* has image layers.
AddV1Image_AllToSBOM ==
    /\ stage = "addImages"
    /\ \E ok \in BOOLEAN :
         /\ log' = Append(log, Event("AddV1Image", 0, 0, i, ok))
         /\ IF ok
            THEN /\ layoutImages' = Append(layoutImages, pulled[i].ref)
                 /\ sbomImageList' = Append(sbomImageList, pulled[i].ref)
                 /\ Goto(Pos(IF i < Len(pulled) THEN "addImages" ELSE "catalog", 0, i + 1))
                 /\ UNCHANGED << returned, err >>
            ELSE /\ Return(NewError("AddV1Image"))
                 /\ UNCHANGED << layoutImages, sbomImageList >>
    /\ UNCHANGED << notAssemble, listingErrors,
                    pkg, ci, pending, imageList, attempts, pulled, componentSBOMs, catalog >>

\* One iteration of the loop over pulled: dst.Images.AddV1Image(imgInfo.Img),
\* then the append to sbomImageList of an image that has image layers.
AddV1Image ==
    /\ stage = "addImages"
    /\ \E ok \in BOOLEAN :
         /\ log' = Append(log, Event("AddV1Image", 0, 0, i, ok))
         /\ IF ok
            THEN /\ layoutImages' = Append(layoutImages, pulled[i].ref)
                 /\ sbomImageList' =
                        IF pulled[i].hasImageLayers
                        THEN Append(sbomImageList, pulled[i].ref) ELSE sbomImageList
                 /\ Goto(Pos(IF i < Len(pulled) THEN "addImages" ELSE "catalog", 0, i + 1))
                 /\ UNCHANGED << returned, err >>
            ELSE /\ Return(NewError("AddV1Image"))
                 /\ UNCHANGED << layoutImages, sbomImageList >>
    /\ UNCHANGED << notAssemble, listingErrors,
                    pkg, ci, pending, imageList, attempts, pulled, componentSBOMs, catalog >>

\* --skip-sbom: no catalog is made, Assemble returns nil.
SkipCatalog ==
    /\ stage = "catalog"
    /\ pkg.skipSBOM
    /\ Return(Nil)
    /\ UNCHANGED << notAssemble, listingErrors,
                    pkg, ci, pending, imageList, attempts, pulled, sbomImageList,
                    componentSBOMs, layoutImages, catalog, log >>

\* dst.AddSBOMs() and sbom.Catalog(componentSBOMs, sbomImageList, dst)
Catalog ==
    /\ stage = "catalog"
    /\ ~pkg.skipSBOM
    /\ \E ok \in BOOLEAN :
         /\ log' = Append(log, Event("Catalog", 0, 0, 0, ok))
         /\ IF ok
            THEN /\ catalog' = Append(catalog, [components |-> componentSBOMs,
                                                images |-> sbomImageList])
                 /\ Return(Nil)
            ELSE /\ UNCHANGED catalog
                 /\ Return(Wrap(<< "unable to create an SBOM catalog for the package" >>,
                                NewError("sbom.Catalog")))
    /\ UNCHANGED << notAssemble, listingErrors,
                    pkg, ci, pending, imageList, attempts, pulled, sbomImageList,
                    componentSBOMs, layoutImages >>

Assemble ==
    \/ addComponent
    \/ RunOnFailure
    \/ RunOnSuccess
    \/ GetFilesToSBOM
    \/ CollectImages
    \/ UniqueImages
    \/ doPull
    \/ AddV1Image
    \/ SkipCatalog
    \/ Catalog

Next == Assemble

Spec == Init /\ [][Next]_vars

\* Assemble is not running.
AssembleUnused ==
    /\ pkg = Nil
    /\ stage = "unused"
    /\ ci = 0
    /\ mi = 0
    /\ i = 0
    /\ pending = Nil
    /\ imageList = << >>
    /\ attempts = 0
    /\ pulled = << >>
    /\ sbomImageList = << >>
    /\ componentSBOMs = {}
    /\ listingErrors = {}
    /\ layoutImages = << >>
    /\ catalog = << >>
    /\ returned = FALSE
    /\ err = Nil
    /\ log = << >>

\* ---------------------------------------------- LoadPackageDefinition

\* Package versions: unset, or one of two distinct versions.
Versions == { "", "v1", "v2" }

\* The warnings a step may report: none or one.
WarningsOf(step) == { << >>, << step \o " warning" >> }

\* pc.cfg: Pkg.Build.Differential, Pkg.Metadata.Version,
\* CreateOpts.DifferentialData.DifferentialPackageVersion as the version test
\* reads it, and the warnings composing and templating this package produce.
LoadConfigs ==
    [ differential : BOOLEAN,
      version : Versions,
      differentialPackageVersion : Versions,
      composeWarnings : WarningsOf("compose"),
      templateWarnings : WarningsOf("template") ]

\* lang.PkgCreateErrDifferentialSameVersion
PkgCreateErrDifferentialSameVersion == "PkgCreateErrDifferentialSameVersion"

\* lang.PkgCreateErrDifferentialNoVersion
PkgCreateErrDifferentialNoVersion == "PkgCreateErrDifferentialNoVersion"

\* One call, as the history of LoadPackageDefinition records it.
Called(call, ok) == [call |-> call, ok |-> ok]

\* The entry of LoadPackageDefinition.
LoadInit ==
    /\ AssembleUnused
    /\ PullUnused
    /\ ComposerUnused
    /\ OutputUnused
    /\ LayoutUnused
    /\ OrasUnused
    /\ BigBangUnused
    /\ ToolsUnused
    /\ SpinnerUnused
    /\ MultiSpinnerUnused
    /\ FindURLsUnused
    /\ loadCfg \in LoadConfigs
    /\ loadStage = "setPackageMetadata"
    /\ warnings = << >>
    /\ loadResult = Nil
    /\ loadLog = << >>

\* return p, w, e
LoadReturn(p, w, e) ==
    /\ loadResult' = [pkg |-> p, warnings |-> w, err |-> e]
    /\ loadStage' = "returned"

\* setPackageMetadata: its error is only shown as a warning message.
SetPackageMetadata ==
    /\ loadStage = "setPackageMetadata"
    /\ \E ok \in BOOLEAN : loadLog' = Append(loadLog, Called("setPackageMetadata", ok))
    /\ loadStage' = "ComposeComponents"
    /\ UNCHANGED << notLoad, loadCfg, warnings, loadResult >>

\* ComposeComponents, and the append of its warnings.
ComposeComponents ==
    /\ loadStage = "ComposeComponents"
    /\ \E ok \in BOOLEAN :
         /\ loadLog' = Append(loadLog, Called("ComposeComponents", ok))
         /\ IF ok
            THEN /\ warnings' = warnings \o loadCfg.composeWarnings
                 /\ loadStage' = "FillActiveTemplate"
                 /\ UNCHANGED loadResult
            ELSE /\ LoadReturn("nil", << >>, NewError("ComposeComponents"))
                 /\ UNCHANGED warnings
    /\ UNCHANGED << notLoad, loadCfg >>

\* FillActiveTemplate, and the append of its warnings.
FillActiveTemplate ==
    /\ loadStage = "FillActiveTemplate"
    /\ \E ok \in BOOLEAN :
         /\ loadLog' = Append(loadLog, Called("FillActiveTemplate", ok))
         /\ IF ok
            THEN /\ warnings' = warnings \o loadCfg.templateWarnings
                 /\ loadStage' = "processExtensions"
                 /\ UNCHANGED loadResult
            ELSE /\ LoadReturn("nil", << >>,
                               Wrap(<< "unable to fill values in template" >>,
                                    NewError("FillActiveTemplate")))
                 /\ UNCHANGED warnings
    /\ UNCHANGED << notLoad, loadCfg >>

\* processExtensions, then the test of pc.cfg.Pkg.Build.Differential: a
\* package that is not differential is returned with the warnings collected.
ProcessExtensions ==
    /\ loadStage = "processExtensions"
    /\ \E ok \in BOOLEAN :
         /\ loadLog' = Append(loadLog, Called("processExtensions", ok))
         /\ IF ~ok
            THEN LoadReturn("nil", << >>, NewError("processExtensions"))
            ELSE IF loadCfg.differential
                 THEN /\ loadStage' = "loadDifferentialData"
                      /\ UNCHANGED loadResult
                 ELSE LoadReturn("extendedPkg", warnings, Nil)
    /\ UNCHANGED << notLoad, loadCfg, warnings >>

\* Mutant: the version tests are skipped.
VersionError_None(differentialPackageVersion, version) == Nil

\* The tests versionsMatch and noVersionSet, in the order of the code: the
\* error LoadPackageDefinition returns for the pair of versions, or nil.
VersionError(differentialPackageVersion, version) ==
    IF differentialPackageVersion = version
    THEN NewError(PkgCreateErrDifferentialSameVersion)
    ELSE IF differentialPackageVersion = "" \/ version = ""
         THEN NewError(PkgCreateErrDifferentialNoVersion)
         ELSE Nil

\* loadDifferentialData, then the two version tests.
LoadDifferentialData ==
    /\ loadStage = "loadDifferentialData"
    /\ \E ok \in BOOLEAN :
         /\ loadLog' = Append(loadLog, Called("loadDifferentialData", ok))
         /\ IF ~ok
            THEN LoadReturn("nil", << >>, NewError("loadDifferentialData"))
            ELSE LET e == VersionError(loadCfg.differentialPackageVersion, loadCfg.version)
                 IN  IF e # Nil
                     THEN LoadReturn("nil", << >>, e)
                     ELSE /\ loadStage' = "removeCopiesFromDifferentialPackage"
                          /\ UNCHANGED loadResult
    /\ UNCHANGED << notLoad, loadCfg, warnings >>

\* removeCopiesFromDifferentialPackage: the differential package is returned
\* with nil warnings.
RemoveCopiesFromDifferentialPackage ==
    /\ loadStage = "removeCopiesFromDifferentialPackage"
    /\ \E ok \in BOOLEAN :
         /\ loadLog' = Append(loadLog, Called("removeCopiesFromDifferentialPackage", ok))
         /\ IF ok
            THEN LoadReturn("diffPkg", << >>, Nil)
            ELSE LoadReturn("nil", << >>, NewError("removeCopiesFromDifferentialPackage"))
    /\ UNCHANGED << notLoad, loadCfg, warnings >>

LoadPackageDefinition ==
    \/ SetPackageMetadata
    \/ ComposeComponents
    \/ FillActiveTemplate
    \/ ProcessExtensions
    \/ LoadDifferentialData
    \/ RemoveCopiesFromDifferentialPackage

LoadSpec == LoadInit /\ [][LoadPackageDefinition]_vars

\* ------------------------------------------------- pullOCIZarfPackage

\* The most layers a manifest has.
MaxLayers == 2

\* The largest size of a layer, in bytes.
MaxLayerSize == 2

\* The most calls of pullOCIZarfPackage made for the reference.
MaxPulls == 2

\* The bytes of layer k, n bytes long, as the registry serves them.
Content(k, n) == [j \in 1..n |-> << k, j >>]

\* n bytes that are the content of no layer.
Foreign(n) == [j \in 1..n |-> << 0, j >>]

\* os.Stat(path) fails: there is no file.
NoFile == [exists |-> FALSE, data |-> << >>]

File(data) == [exists |-> TRUE, data |-> data]

\* The file found at a path of the destination before the first pull: none,
\* or a file that is no layer's content, of the size of a layer or not.
InitialFiles == { NoFile } \cup { File(Foreign(n)) : n \in 0..MaxLayerSize }

\* layer.Annotations[ocispec.AnnotationTitle] of the layers of a manifest: the
\* registry states them, and two layers may state the same title.
Titles == { "a.tar", "b.tar" }

\* ocispec.MediaTypeArtifactManifest
MediaTypeArtifactManifest == "application/vnd.oci.artifact.manifest.v1+json"

\* ocispec.MediaTypeImageManifest
MediaTypeImageManifest == "application/vnd.oci.image.manifest.v1+json"

\* The descriptors of n layers: layer.Size and the title annotation.
Descriptors(n) == [1..n -> [size : 0..MaxLayerSize, title : Titles]]

\* path := filepath.Join(out, layer.Annotations[ocispec.AnnotationTitle]), as
\* the path below out.
Path(descriptor) == descriptor.title

\* What the reference resolves to: an artifact manifest listing its layers as
\* blobs, or an image manifest listing them as layers.
Manifests ==
    UNION { { [mediaType |-> MediaTypeArtifactManifest, blobs |-> l, layers |-> << >>],
              [mediaType |-> MediaTypeImageManifest, blobs |-> << >>, layers |-> l] } :
            l \in UNION { Descriptors(n) : n \in 0..MaxLayers } }

\* The layers pullOCIZarfPackage reads from the unmarshalled manifest.
ManifestLayers(manifest) ==
    IF manifest.mediaType = MediaTypeArtifactManifest
    THEN manifest.blobs
    ELSE manifest.layers

\* One step of a pull, as the history records it, with the file that was at
\* the path of the layer before the step.
PullStep(op, k, ok, file) == [op |-> op, layer |-> k, ok |-> ok, file |-> file]

\* The first call of pullOCIZarfPackage(ref, out, spinner).
PullInit ==
    /\ AssembleUnused
    /\ LoadUnused
    /\ ComposerUnused
    /\ OutputUnused
    /\ LayoutUnused
    /\ OrasUnused
    /\ BigBangUnused
    /\ ToolsUnused
    /\ SpinnerUnused
    /\ MultiSpinnerUnused
    /\ FindURLsUnused
    /\ registry \in Manifests
    /\ dest \in [Titles -> InitialFiles]
    /\ \A t \in Titles :
           (\A k \in DOMAIN ManifestLayers(registry) :
                Path(ManifestLayers(registry)[k]) # t) => dest[t] = NoFile
    /\ pullCalls = 1
    /\ pullStage = "orasRemote"
    /\ layers = << >>
    /\ layer = 0
    /\ layerContent = << >>
    /\ pullErr = Nil
    /\ pullLog = << >>

\* return e
PullReturn(e) ==
    /\ pullErr' = e
    /\ pullStage' = "returned"

\* A call made before the loop over the layers: on failure its error is
\* returned.
BeforeLayers(call, next) ==
    /\ pullStage = call
    /\ \E ok \in BOOLEAN :
         /\ pullLog' = Append(pullLog, PullStep(call, 0, ok, NoFile))
         /\ IF ok
            THEN /\ pullStage' = next
                 /\ UNCHANGED pullErr
            ELSE PullReturn(NewError(call))
    /\ UNCHANGED << notPull, registry, dest, pullCalls, layers, layer, layerContent >>

\* os.Mkdir(out, 0755), its error ignored, and p.orasRemote(ref)
OrasRemote == BeforeLayers("orasRemote", "Resolve")

\* repo.Resolve(ctx, ref.Reference)
Resolve == BeforeLayers("Resolve", "FetchAll manifest")

\* content.FetchAll(ctx, repo, descriptor)
FetchManifest == BeforeLayers("FetchAll manifest", "Unmarshal")

\* The position after the end of the loop body for layer k of l: the next
\* layer, or return nil.
AfterLayer(k, l) == IF k < Len(l) THEN "Stat" ELSE "returned"

\* json.Unmarshal of the manifest, as an artifact or as an image manifest.
Unmarshal ==
    /\ pullStage = "Unmarshal"
    /\ \E ok \in BOOLEAN :
         /\ pullLog' = Append(pullLog, PullStep("Unmarshal", 0, ok, NoFile))
         /\ IF ok
            THEN /\ layers' = ManifestLayers(registry)
                 /\ layer' = 1
                 /\ pullStage' = AfterLayer(0, layers')
                 /\ UNCHANGED pullErr
            ELSE /\ PullReturn(NewError("Unmarshal"))
                 /\ UNCHANGED << layers, layer >>
    /\ UNCHANGED << notPull, registry, dest, pullCalls, layerContent >>

\* err == nil && info.Size() == layer.Size
SizeMatches(file, size) == file.exists /\ Len(file.data) = size

\* The file at the path of layer k of the manifest.
FileAt(k) == dest[Path(layers[k])]

\* os.Stat(path) and the test that skips the layer.
Stat ==
    /\ pullStage = "Stat"
    /\ LET skip == SizeMatches(FileAt(layer), layers[layer].size)
       IN  /\ pullLog' = Append(pullLog, PullStep("Stat", layer, skip, FileAt(layer)))
           /\ IF skip
              THEN /\ pullStage' = AfterLayer(layer, layers)
                   /\ layer' = layer + 1
              ELSE /\ pullStage' = "FetchAll"
                   /\ UNCHANGED layer
    /\ UNCHANGED << notPull, registry, dest, pullCalls, layers, layerContent, pullErr >>

\* content.FetchAll(ctx, repo, layer): the whole layer, read into memory and
\* verified against the descriptor.
FetchLayer ==
    /\ pullStage = "FetchAll"
    /\ \E ok \in BOOLEAN :
         /\ pullLog' = Append(pullLog, PullStep("FetchAll", layer, ok, FileAt(layer)))
         /\ IF ok
            THEN /\ layerContent' = Content(layer, layers[layer].size)
                 /\ pullStage' = "Create"
                 /\ UNCHANGED pullErr
            ELSE /\ PullReturn(NewError("FetchAll"))
                 /\ UNCHANGED layerContent
    /\ UNCHANGED << notPull, registry, dest, pullCalls, layers, layer >>

\* os.MkdirAll(parent, 0755) and os.Create(path): the file is created or
\* truncated.
Create ==
    /\ pullStage = "Create"
    /\ \E ok \in BOOLEAN :
         /\ pullLog' = Append(pullLog, PullStep("Create", layer, ok, FileAt(layer)))
         /\ IF ok
            THEN /\ dest' = [dest EXCEPT ![Path(layers[layer])] = File(<< >>)]
                 /\ pullStage' = "Write"
                 /\ UNCHANGED pullErr
            ELSE /\ PullReturn(NewError("Create"))
                 /\ UNCHANGED dest
    /\ UNCHANGED << notPull, registry, pullCalls, layers, layer, layerContent >>

\* file.Write(layerContent): all of the content is written, or the write
\* fails after a part of it.
Write ==
    /\ pullStage = "Write"
    /\ \E n \in 0..Len(layerContent) :
         LET ok == n = Len(layerContent)
         IN  /\ pullLog' = Append(pullLog, PullStep("Write", layer, ok, FileAt(layer)))
             /\ dest' = [dest EXCEPT ![Path(layers[layer])] = File(SubSeq(layerContent, 1, n))]
             /\ IF ok
                THEN /\ pullStage' = AfterLayer(layer, layers)
                     /\ layer' = layer + 1
                     /\ UNCHANGED pullErr
                ELSE /\ PullReturn(NewError("Write"))
                     /\ UNCHANGED layer
    /\ UNCHANGED << notPull, registry, pullCalls, layers, layerContent >>

\* pullOCIZarfPackage is running.
Pulling == pullStage \notin { "unused", "returned", "interrupted" }

\* The process is stopped while pullOCIZarfPackage runs; when it is stopped
\* in file.Write a part of the content has reached the file.
Interrupt ==
    /\ Pulling
    /\ pullLog' = Append(pullLog, PullStep("interrupt", 0, FALSE, NoFile))
    /\ pullStage' = "interrupted"
    /\ IF pullStage = "Write"
       THEN \E n \in 0..Len(layerContent) :
                dest' = [dest EXCEPT ![Path(layers[layer])] = File(SubSeq(layerContent, 1, n))]
       ELSE UNCHANGED dest
    /\ UNCHANGED << notPull, registry, pullCalls, layers, layer, layerContent, pullErr >>

\* The same reference is pulled into the same directory again.
PullAgain ==
    /\ pullStage \in { "returned", "interrupted" }
    /\ pullCalls < MaxPulls
    /\ pullCalls' = pullCalls + 1
    /\ pullStage' = "orasRemote"
    /\ layers' = << >>
    /\ layer' = 0
    /\ layerContent' = << >>
    /\ pullErr' = Nil
    /\ pullLog' = << >>
    /\ UNCHANGED << notPull, registry, dest >>

pullOCIZarfPackage ==
    \/ OrasRemote
    \/ Resolve
    \/ FetchManifest
    \/ Unmarshal
    \/ Stat
    \/ FetchLayer
    \/ Create
    \/ Write

PullNext ==
    \/ pullOCIZarfPackage
    \/ Interrupt
    \/ PullAgain

PullSpec == PullInit /\ [][PullNext]_vars

\* ---------------------------------------------------- fetchOCISkeleton

\* The most nodes an import chain has.
MaxChain == 3

\* The most calls of fetchOCISkeleton one execution makes.
MaxFetches == 2

\* The executions of fetchOCISkeleton that may share the cache.
Executions == { 1, 2 }

\* node.Import.URL: empty for a node that imports nothing or a local path.
ImportURLs == { "", "oci://registry/skeleton" }

\* A node of the chain: its Import.URL and its ImportName().
Nodes == [url : ImportURLs, name : { "component" }]

\* Import chains: the head is the first node, ic.tail the last.
Chains == UNION { [1..n -> Nodes] : n \in 1..MaxChain }

\* The descriptor manifest.Locate returns for a component without a tarball.
EmptyDescriptor == [digest |-> "", size |-> 0]

\* oci.IsEmptyDescriptor
IsEmptyDescriptor(desc) == desc.digest = "" /\ desc.size = 0

\* The digests of component tarballs.
Digests == { "d1" }

\* What manifest.Locate(components/<name>.tar) may return.
ComponentDescriptors ==
    { EmptyDescriptor } \cup { [digest |-> d, size |-> 1] : d \in Digests }

\* Absolute paths, as sequences of elements: the working directories.
WorkingDirectories == { << "home", "package" >>, << "cache", "work" >> }

\* filepath.Join(config.GetAbsCachePath(), "oci")
CachePath == << "cache", "oci" >>

\* fmt.Sprintf("%x", sha256 of s)
Sha256Hex(s) == "sha256(" \o s \o ")"

\* dir: the directory of the component in the cache.
ComponentDir(node, desc) ==
    IF IsEmptyDescriptor(desc)
    THEN CachePath \o << "dirs", Sha256Hex(node.url \o node.name) >>
    ELSE CachePath \o << "dirs", desc.digest >>

RECURSIVE CommonPrefix(_, _)
\* The number of leading elements two paths share.
CommonPrefix(a, b) ==
    IF a = << >> \/ b = << >> \/ Head(a) # Head(b)
    THEN 0
    ELSE 1 + CommonPrefix(Tail(a), Tail(b))

\* filepath.Rel(base, target) for two absolute paths.
Rel(base, target) ==
    LET shared == CommonPrefix(base, target)
        up     == [j \in 1..(Len(base) - shared) |-> ".."]
        down   == SubSeq(target, shared + 1, Len(target))
    IN  IF up \o down = << >> THEN << "." >> ELSE up \o down

\* ic.tail.prev, for a chain of at least two nodes.
TailPrev(c) == c[Len(c) - 1]

\* Mutant: any node of the chain with an import URL counts.
ContainsOCIImport_AnyNode(c) == \E k \in DOMAIN c : c[k].url # ""

\* ic.tail.prev != nil && ic.tail.prev.Import.URL != ""
ContainsOCIImport(c) == Len(c) >= 2 /\ TailPrev(c).url # ""

\* store.Exists(ctx, componentDesc): a blob is at the path of the digest.
StoreExists(blobs, desc) == blobs[desc.digest] # "absent"

\* The file the store writes the content to while execution p copies.
IngestPath(p) == "ingest/" \o ToString(p)

\* The paths of the store: the blob path of each digest, named by the digest,
\* and the ingest files.
StorePaths == Digests \cup { IngestPath(p) : p \in Executions }

\* Mutant: the store writes the content at the blob path itself.
DuringCopy_InPlace(blobs, desc, p) == [blobs EXCEPT ![desc.digest] = "partial"]

\* The store while the copy of execution p is under way: a part of the content
\* is in the ingest file of that copy, and the blob path holds what it held.
DuringCopy(blobs, desc, p) == [blobs EXCEPT ![IngestPath(p)] = "partial"]

\* The store when the copy of execution p is complete: the ingest file, which
\* holds all of the content, is moved to the blob path of the digest.
AfterCopy(blobs, desc, p) ==
    [blobs EXCEPT ![desc.digest] = "complete", ![IngestPath(p)] = "absent"]

\* Mutant: the layer is copied whether or not the store has it.
CopyNeeded_Always(exists) == TRUE

\* else if !exists
CopyNeeded(exists) == ~exists

\* Mutant: the tarball is extracted whatever the descriptor.
ExtractNeeded_Always(desc) == TRUE

\* if oci.IsEmptyDescriptor(componentDesc) { return nil }
ExtractNeeded(desc) == ~IsEmptyDescriptor(desc)

\* One step of fetchOCISkeleton, as the history records it; seen is the
\* state of the component's blob the step found.
Traced(op, ok, seen) == [op |-> op, ok |-> ok, seen |-> seen]

\* The step did not look at the blob.
Unseen == "unseen"

\* The state of the blob of the published component ("none" without tarball).
BlobState ==
    IF IsEmptyDescriptor(published) THEN "none" ELSE cacheBlobs[published.digest]

\* A new ImportChain: no remote, the tail's relativeToHead unset.
NewImportChain == [remote |-> "nil", relativeToHead |-> << >>]

\* The inputs all executions share.
ComposerInit ==
    /\ AssembleUnused
    /\ LoadUnused
    /\ PullUnused
    /\ OutputUnused
    /\ LayoutUnused
    /\ OrasUnused
    /\ BigBangUnused
    /\ ToolsUnused
    /\ SpinnerUnused
    /\ MultiSpinnerUnused
    /\ FindURLsUnused
    /\ chain \in Chains
    /\ published \in ComponentDescriptors
    /\ cwd \in WorkingDirectories
    /\ cacheBlobs \in [StorePaths -> { "absent", "complete" }]
    /\ \A p \in Executions : cacheBlobs[IngestPath(p)] = "absent"
    /\ cacheDirs = IF \E d \in Digests : cacheBlobs[d] # "absent" THEN { CachePath } ELSE {}
    /\ transfers = 0
    /\ ic = [p \in Executions |-> NewImportChain]
    /\ fetchErr = [p \in Executions |-> Nil]
    /\ trace = [p \in Executions |-> << >>]

\* One execution calls fetchOCISkeleton, possibly several times in sequence.
SkeletonInit ==
    /\ ComposerInit
    /\ active = { 1 }
    /\ skStage = [p \in Executions |-> IF p = 1 THEN "ContainsOCIImport" ELSE "unused"]
    /\ fetchCalls = [p \in Executions |-> IF p = 1 THEN 1 ELSE 0]

\* Two executions call fetchOCISkeleton at the same time for a remote
\* component that has a tarball.
RaceInit ==
    /\ ComposerInit
    /\ ContainsOCIImport(chain)
    /\ ~IsEmptyDescriptor(published)
    /\ active = Executions
    /\ skStage = [p \in Executions |-> "ContainsOCIImport"]
    /\ fetchCalls = [p \in Executions |-> 1]

\* Execution p moves on to the call s and records the step.
SkStep(p, s, step) ==
    /\ skStage' = [skStage EXCEPT ![p] = s]
    /\ trace' = [trace EXCEPT ![p] = Append(@, step)]
    /\ UNCHANGED fetchErr

\* return e, after the recorded step.
SkReturn(p, e, step) ==
    /\ skStage' = [skStage EXCEPT ![p] = "returned"]
    /\ trace' = [trace EXCEPT ![p] = Append(@, step)]
    /\ fetchErr' = [fetchErr EXCEPT ![p] = e]

\* A fallible call that changes nothing the model holds.
SkCall(p, call, next) ==
    /\ skStage[p] = call
    /\ \E ok \in BOOLEAN :
         IF ok
         THEN SkStep(p, next, Traced(call, TRUE, Unseen))
         ELSE SkReturn(p, NewError(call), Traced(call, FALSE, Unseen))
    /\ UNCHANGED << notComposer, chain, published, cwd, cacheBlobs, cacheDirs, transfers,
                    active, ic, fetchCalls >>

\* if !ic.ContainsOCIImport() { return nil }
CheckOCIImport(p) ==
    /\ skStage[p] = "ContainsOCIImport"
    /\ IF ContainsOCIImport(chain)
       THEN SkStep(p, "getRemote", Traced("ContainsOCIImport", TRUE, BlobState))
       ELSE SkReturn(p, Nil, Traced("ContainsOCIImport", FALSE, BlobState))
    /\ UNCHANGED << notComposer, chain, published, cwd, cacheBlobs, cacheDirs, transfers,
                    active, ic, fetchCalls >>

\* getRemote up to its call of ResolveRoot: the remote of the chain is
\* returned when there is one, else ocizarf.NewZarfOrasRemote makes it.
GetRemote(p) ==
    /\ skStage[p] = "getRemote"
    /\ IF ic[p].remote # "nil"
       THEN /\ SkStep(p, "FetchRoot", Traced("getRemote", TRUE, Unseen))
            /\ UNCHANGED ic
       ELSE \E ok \in BOOLEAN :
              IF ok
              THEN /\ ic' = [ic EXCEPT ![p].remote = "unresolved"]
                   /\ SkStep(p, "ResolveRoot", Traced("NewZarfOrasRemote", TRUE, Unseen))
              ELSE /\ ic' = [ic EXCEPT ![p].remote = "nil"]
                   /\ SkReturn(p, NewError("NewZarfOrasRemote"),
                               Traced("NewZarfOrasRemote", FALSE, Unseen))
    /\ UNCHANGED << notComposer, chain, published, cwd, cacheBlobs, cacheDirs, transfers,
                    active, fetchCalls >>

\* ic.remote.ResolveRoot() in getRemote.
ResolveRoot(p) ==
    /\ skStage[p] = "ResolveRoot"
    /\ \E ok \in BOOLEAN :
         IF ok
         THEN /\ ic' = [ic EXCEPT ![p].remote = "resolved"]
              /\ SkStep(p, "FetchRoot", Traced("ResolveRoot", TRUE, Unseen))
         ELSE /\ UNCHANGED ic
              /\ SkReturn(p, Wrap(<< "published skeleton package for ", TailPrev(chain).url,
                                      " does not exist" >>, NewError("ResolveRoot")),
                          Traced("ResolveRoot", FALSE, Unseen))
    /\ UNCHANGED << notComposer, chain, published, cwd, cacheBlobs, cacheDirs, transfers,
                    active, fetchCalls >>

\* remote.FetchRoot()
FetchRoot(p) == SkCall(p, "FetchRoot", "CreateDirectory cache")

\* manifest.Locate, and utils.CreateDirectory(cache, 0700); then the test of
\* oci.IsEmptyDescriptor(componentDesc) that chooses dir.
CreateCacheDirectory(p) ==
    /\ skStage[p] = "CreateDirectory cache"
    /\ \E ok \in BOOLEAN :
         IF ok
         THEN /\ cacheDirs' = cacheDirs \cup { CachePath }
              /\ SkStep(p, IF IsEmptyDescriptor(published)
                           THEN "CreateDirectory dir" ELSE "ocistore.New",
                        Traced("CreateDirectory cache", TRUE, Unseen))
         ELSE /\ UNCHANGED cacheDirs
              /\ SkReturn(p, NewError("CreateDirectory cache"),
                          Traced("CreateDirectory cache", FALSE, Unseen))
    /\ UNCHANGED << notComposer, chain, published, cwd, cacheBlobs, transfers, active, ic,
                    fetchCalls >>

\* ocistore.New(cache)
NewStore(p) == SkCall(p, "ocistore.New", "Exists")

\* store.Exists(ctx, componentDesc) and the test of !exists.
Exists(p) ==
    /\ skStage[p] = "Exists"
    /\ \E ok \in BOOLEAN :
         IF ok
         THEN LET exists == StoreExists(cacheBlobs, published)
              IN  SkStep(p, IF CopyNeeded(exists) THEN "CopyWithProgress"
                                                  ELSE "CreateDirectory dir",
                         Traced("Exists", exists, BlobState))
         ELSE SkReturn(p, NewError("Exists"), Traced("Exists error", FALSE, BlobState))
    /\ UNCHANGED << notComposer, chain, published, cwd, cacheBlobs, cacheDirs, transfers,
                    active, ic, fetchCalls >>

\* remote.CopyWithProgress is called: the copy of the layer begins.
CopyWithProgress(p) ==
    /\ skStage[p] = "CopyWithProgress"
    /\ cacheBlobs' = DuringCopy(cacheBlobs, published, p)
    /\ SkStep(p, "copying", Traced("CopyWithProgress", TRUE, Unseen))
    /\ UNCHANGED << notComposer, chain, published, cwd, cacheDirs, transfers, active, ic,
                    fetchCalls >>

\* remote.CopyWithProgress returns: the layer is in the store, or the copy
\* failed, the blob path holds what it held and the ingest file is left.
CopyWithProgressReturns(p) ==
    /\ skStage[p] = "copying"
    /\ \E ok \in BOOLEAN :
         IF ok
         THEN /\ cacheBlobs' = AfterCopy(cacheBlobs, published, p)
              /\ transfers' = transfers + 1
              /\ SkStep(p, "CreateDirectory dir", Traced("copied", TRUE, Unseen))
         ELSE /\ UNCHANGED << cacheBlobs, transfers >>
              /\ SkReturn(p, NewError("CopyWithProgress"), Traced("copied", FALSE, Unseen))
    /\ UNCHANGED << notComposer, chain, published, cwd, cacheDirs, active, ic, fetchCalls >>

\* utils.CreateDirectory(dir, 0700)
CreateDirectory(p) ==
    /\ skStage[p] = "CreateDirectory dir"
    /\ \E ok \in BOOLEAN :
         IF ok
         THEN /\ cacheDirs' = cacheDirs \cup { ComponentDir(TailPrev(chain), published) }
              /\ SkStep(p, "Rel", Traced("CreateDirectory dir", TRUE, Unseen))
         ELSE /\ UNCHANGED cacheDirs
              /\ SkReturn(p, NewError("CreateDirectory dir"),
                          Traced("CreateDirectory dir", FALSE, Unseen))
    /\ UNCHANGED << notComposer, chain, published, cwd, cacheBlobs, transfers, active, ic,
                    fetchCalls >>

\* os.Getwd(), filepath.Rel(cwd, dir) and ic.tail.relativeToHead = rel; then
\* return nil when nothing was fetched.
SetRelativeToHead(p) ==
    /\ skStage[p] = "Rel"
    /\ \E ok \in BOOLEAN :
         IF ok
         THEN /\ ic' = [ic EXCEPT ![p].relativeToHead =
                                      Rel(cwd, ComponentDir(TailPrev(chain), published))]
              /\ IF ExtractNeeded(published)
                 THEN SkStep(p, "Unarchive", Traced("Rel", TRUE, Unseen))
                 ELSE SkReturn(p, Nil, Traced("Rel", TRUE, Unseen))
         ELSE /\ UNCHANGED ic
              /\ SkReturn(p, NewError("Rel"), Traced("Rel", FALSE, Unseen))
    /\ UNCHANGED << notComposer, chain, published, cwd, cacheBlobs, cacheDirs, transfers,
                    active, fetchCalls >>

\* tu.Unarchive(tb, dir): the tarball at the blob path is read and extracted.
Unarchive(p) ==
    /\ skStage[p] = "Unarchive"
    /\ \E ok \in BOOLEAN :
         IF ok /\ BlobState = "complete"
         THEN SkReturn(p, Nil, Traced("Unarchive", TRUE, BlobState))
         ELSE SkReturn(p, NewError("Unarchive"), Traced("Unarchive", FALSE, BlobState))
    /\ UNCHANGED << notComposer, chain, published, cwd, cacheBlobs, cacheDirs, transfers,
                    active, ic, fetchCalls >>

\* fetchOCISkeleton is called again, on the same ImportChain or on a new one
\* for the same package and the same published component; the working
\* directory of the process, which every call reads with os.Getwd(), is the
\* one it was or another one.
FetchAgain(p) ==
    /\ skStage[p] = "returned"
    /\ fetchCalls[p] < MaxFetches
    /\ fetchCalls' = [fetchCalls EXCEPT ![p] = @ + 1]
    /\ skStage' = [skStage EXCEPT ![p] = "ContainsOCIImport"]
    /\ trace' = [trace EXCEPT ![p] = << >>]
    /\ fetchErr' = [fetchErr EXCEPT ![p] = Nil]
    /\ \E new \in BOOLEAN : ic' = IF new THEN [ic EXCEPT ![p] = NewImportChain] ELSE ic
    /\ cwd' \in WorkingDirectories
    /\ UNCHANGED << notComposer, chain, published, cacheBlobs, cacheDirs, transfers,
                    active >>

fetchOCISkeleton(p) ==
    \/ CheckOCIImport(p)
    \/ GetRemote(p)
    \/ ResolveRoot(p)
    \/ FetchRoot(p)
    \/ CreateCacheDirectory(p)
    \/ NewStore(p)
    \/ Exists(p)
    \/ CopyWithProgress(p)
    \/ CopyWithProgressReturns(p)
    \/ CreateDirectory(p)
    \/ SetRelativeToHead(p)
    \/ Unarchive(p)

ComposerNext ==
    \E p \in active :
        \/ fetchOCISkeleton(p)
        \/ FetchAgain(p)

\* Calls of fetchOCISkeleton one after the other.
SkeletonSpec == SkeletonInit /\ [][ComposerNext]_vars

RaceNext == \E p \in active : fetchOCISkeleton(p)

\* Two executions of fetchOCISkeleton interleaved step by step.
RaceSpec == RaceInit /\ [][RaceNext]_vars

\* ------------------------------------------------------------- Output

\* The components of the package Output writes.
MaxComponents == 2

\* pc.cfg as Output reads it: the number of components, and of CreateOpts the
\* signing key path, the output (a directory or an OCI URL), ViewSBOM and
\* SBOMOutputDir.
OutputConfigs ==
    [ components : 0..MaxComponents,
      signingKeyPath : { "", "cosign.key" },
      output : { "build", "oci://registry/packages" },
      viewSBOM : BOOLEAN,
      sbomOutputDir : { "", "sboms" } ]

\* helpers.IsOCIURL
IsOCIURL(url) == Len(url) >= 6 /\ SubSeq(url, 1, 6) = "oci://"

\* generateChecksums(dst): the checksum of the checksums of the files dst
\* holds, here the tarballs of the archived components.
AggregateChecksum(tarballs) == Sha256Hex(ToString(tarballs))

\* deprecated.ScriptsToActionsMigrated, deprecated.PluralizeSetVariable
Migrations == << "scripts-to-actions", "pluralize-set-variable" >>

OutputInit ==
    /\ AssembleUnused
    /\ LoadUnused
    /\ PullUnused
    /\ ComposerUnused
    /\ LayoutUnused
    /\ OrasUnused
    /\ BigBangUnused
    /\ ToolsUnused
    /\ SpinnerUnused
    /\ MultiSpinnerUnused
    /\ FindURLsUnused
    /\ outCfg \in OutputConfigs
    /\ outStage = IF outCfg.components = 0 THEN "generateChecksums" ELSE "Archive"
    /\ outComp = 1
    /\ archived = {}
    /\ outPkg = [aggregateChecksum |-> "", migrations |-> << >>]
    /\ zarfYAML = Nil
    /\ signature = Nil
    /\ delivered = Nil
    /\ outErr = Nil
    /\ outLog = << >>

\* One call of Output with outcome ok: on success Output goes on to the call
\* next ("returned": it returns nil), on failure it returns e.
OutCall(op, ok, next, e) ==
    /\ outLog' = Append(outLog, [op |-> op, ok |-> ok])
    /\ outStage' = IF ok THEN next ELSE "returned"
    /\ outErr' = IF ok THEN Nil ELSE e

\* dst.Components.Archive(component, true), for each component in turn
ArchiveComponent ==
    /\ outStage = "Archive"
    /\ \E ok \in BOOLEAN :
         /\ OutCall("Archive", ok,
                    IF outComp < outCfg.components THEN "Archive" ELSE "generateChecksums",
                    Flatten(<< "unable to archive component" >>, NewError("Archive")))
         /\ archived' = IF ok THEN archived \cup { outComp } ELSE archived
         /\ outComp' = IF ok THEN outComp + 1 ELSE outComp
    /\ UNCHANGED << notOutput, outCfg, outPkg, zarfYAML, signature, delivered >>

\* Mutant: the aggregate checksum is computed but not stored in the metadata.
GenerateChecksums_NotStored ==
    /\ outStage = "generateChecksums"
    /\ \E ok \in BOOLEAN :
         /\ OutCall("generateChecksums", ok, "WriteYaml",
                    Wrap(<< "unable to generate checksums for the package" >>,
                         NewError("generateChecksums")))
         /\ outPkg' = IF ok
                      THEN [outPkg EXCEPT !.migrations = Migrations]
                      ELSE outPkg
    /\ UNCHANGED << notOutput, outCfg, outComp, archived, zarfYAML, signature, delivered >>

\* generateChecksums(dst), then Metadata.AggregateChecksum and
\* Build.Migrations are set.
GenerateChecksums ==
    /\ outStage = "generateChecksums"
    /\ \E ok \in BOOLEAN :
         /\ OutCall("generateChecksums", ok, "WriteYaml",
                    Wrap(<< "unable to generate checksums for the package" >>,
                         NewError("generateChecksums")))
         /\ outPkg' = IF ok
                      THEN [aggregateChecksum |-> AggregateChecksum(archived),
                            migrations |-> Migrations]
                      ELSE outPkg
    /\ UNCHANGED << notOutput, outCfg, outComp, archived, zarfYAML, signature, delivered >>

\* The call Output makes after the manifest is written and signed.
Deliver == IF IsOCIURL(outCfg.output) THEN "ReferenceFromMetadata" ELSE "ArchivePackage"

\* utils.WriteYaml(dst.ZarfYAML, pc.cfg.Pkg, 0400)
WriteYaml ==
    /\ outStage = "WriteYaml"
    /\ \E ok \in BOOLEAN :
         /\ OutCall("WriteYaml", ok,
                    IF outCfg.signingKeyPath # "" THEN "SignPackage" ELSE Deliver,
                    Wrap(<< "unable to write zarf.yaml" >>, NewError("WriteYaml")))
         /\ zarfYAML' = IF ok THEN outPkg ELSE zarfYAML
    /\ UNCHANGED << notOutput, outCfg, outComp, archived, outPkg, signature, delivered >>

\* dst.SignPackage(SigningKeyPath, SigningKeyPassword)
SignPackage ==
    /\ outStage = "SignPackage"
    /\ \E ok \in BOOLEAN :
         /\ OutCall("SignPackage", ok, Deliver, NewError("SignPackage"))
         /\ signature' = IF ok THEN zarfYAML ELSE signature
    /\ UNCHANGED << notOutput, outCfg, outComp, archived, outPkg, zarfYAML, delivered >>

\* The package as it leaves: the component tarballs, the manifest and its
\* signature.
Package(to) ==
    [to |-> to, components |-> archived, zarfYAML |-> zarfYAML, signature |-> signature]

\* The call Output makes after the package is published or archived.
OutputSBOM ==
    IF outCfg.viewSBOM \/ outCfg.sbomOutputDir # "" THEN "Unarchive" ELSE "returned"

\* oci.ReferenceFromMetadata, oci.NewOrasRemote and remote.PublishPackage
PublishPackage ==
    /\ \E ok \in BOOLEAN :
         \/ /\ outStage = "ReferenceFromMetadata"
            /\ OutCall("ReferenceFromMetadata", ok, "NewOrasRemote",
                       NewError("ReferenceFromMetadata"))
            /\ UNCHANGED delivered
         \/ /\ outStage = "NewOrasRemote"
            /\ OutCall("NewOrasRemote", ok, "PublishPackage", NewError("NewOrasRemote"))
            /\ UNCHANGED delivered
         \/ /\ outStage = "PublishPackage"
            /\ OutCall("PublishPackage", ok, OutputSBOM,
                       Wrap(<< "unable to publish package" >>, NewError("PublishPackage")))
            /\ delivered' = IF ok THEN Package("oci") ELSE delivered
    /\ UNCHANGED << notOutput, outCfg, outComp, archived, outPkg, zarfYAML, signature >>

\* dst.ArchivePackage(packageName, MaxPackageSizeMB)
ArchivePackage ==
    /\ outStage = "ArchivePackage"
    /\ \E ok \in BOOLEAN :
         /\ OutCall("ArchivePackage", ok, OutputSBOM,
                    Wrap(<< "unable to archive package" >>, NewError("ArchivePackage")))
         /\ delivered' = IF ok THEN Package("tarball") ELSE delivered
    /\ UNCHANGED << notOutput, outCfg, outComp, archived, outPkg, zarfYAML, signature >>

\* dst.SBOMs.Unarchive() and sbom.OutputSBOMFiles, when the SBOM files are to
\* be viewed or written to a directory.
OutputSBOMFiles ==
    /\ \E ok \in BOOLEAN :
         \/ /\ outStage = "Unarchive"
            /\ OutCall("Unarchive", ok,
                       IF outCfg.sbomOutputDir # "" THEN "OutputSBOMFiles" ELSE "returned",
                       Wrap(<< "unable to unarchive SBOMs" >>, NewError("Unarchive")))
         \/ /\ outStage = "OutputSBOMFiles"
            /\ OutCall("OutputSBOMFiles", ok, "returned", NewError("OutputSBOMFiles"))
    /\ UNCHANGED << notOutput, outCfg, outComp, archived, outPkg, zarfYAML, signature,
                    delivered >>

Output ==
    \/ ArchiveComponent
    \/ GenerateChecksums
    \/ WriteYaml
    \/ SignPackage
    \/ PublishPackage
    \/ ArchivePackage
    \/ OutputSBOMFiles

\* One call of PackageCreator.Output.
OutputSpec == OutputInit /\ [][Output]_vars

\* ------------------------------------------- addComponent: the layout

\* Largest number of files, data injections and manifests of a component.
MaxEntries == 2

\* The sources of component files: a regular file with or without execute
\* bits, or a directory (a directory source, or an extracted directory).
FileSources ==
    { [content |-> "tool", isDir |-> FALSE, mode |-> 420],
      [content |-> "tool", isDir |-> FALSE, mode |-> 493],
      [content |-> "tree", isDir |-> TRUE,  mode |-> 493] }

\* types.ZarfFile: Target, Executable, and what Source materializes to.
ZarfFiles ==
    [ target : { << "usr", "bin", "tool" >> }, executable : BOOLEAN, source : FileSources ]

\* types.ZarfDataInjection: Target.Path and what Source materializes to.
ZarfDataInjections ==
    [ target : { << "data", "db" >> },
      source : { [content |-> "rows", isDir |-> FALSE, mode |-> 420] } ]

\* The sequences over S of length at most n.
SeqUpTo(S, n) == UNION { [1..k -> S] : k \in 0..n }

\* types.ZarfManifest: Name, Files and Kustomizations.
ZarfManifests ==
    [ name : { "a", "kustomization-a" },
      files : SeqUpTo({ "m.yaml" }, 2),
      kustomizations : SeqUpTo({ "overlay" }, 1) ]

\* types.ZarfComponent as far as the layout reads it.
LayoutComponents ==
    { c \in [ files : SeqUpTo(ZarfFiles, MaxEntries),
              dataInjections : SeqUpTo(ZarfDataInjections, MaxEntries),
              manifests : SeqUpTo(ZarfManifests, MaxEntries) ] :
        Len(c.files) + Len(c.dataInjections) + Len(c.manifests) <= MaxEntries }

\* The two runs.
Runs == { 1, 2 }

\* One iteration of a loop of addComponent: the loop, the manifest (0 outside
\* the manifests loop) and the loop index, which starts at 0.
Entry(kind, m, idx) == [kind |-> kind, m |-> m, idx |-> idx]

RECURSIVE ManifestEntries(_, _)
\* The iterations of the manifests loop from manifest m on: for each manifest
\* its files, then its kustomizations.
ManifestEntries(c, m) ==
    IF m > Len(c.manifests)
    THEN << >>
    ELSE [k \in 1..Len(c.manifests[m].files) |-> Entry("manifest", m, k - 1)]
           \o [k \in 1..Len(c.manifests[m].kustomizations) |->
                   Entry("kustomization", m, k - 1)]
           \o ManifestEntries(c, m + 1)

\* The iterations addComponent makes for component c, in order: the files,
\* the data injections, the manifests.
Entries(c) ==
    [k \in 1..Len(c.files) |-> Entry("file", 0, k - 1)]
      \o [k \in 1..Len(c.dataInjections) |-> Entry("data", 0, k - 1)]
      \o ManifestEntries(c, 1)

\* filepath.Base of a path with at least one element
Base(path) == path[Len(path)]

\* rel of each loop: the destination of an entry, relative to
\* componentPaths.Base.
Destination(c, e) ==
    CASE e.kind = "file" ->
           << "layout.FilesDir", ToString(e.idx), Base(c.files[e.idx + 1].target) >>
      [] e.kind = "data" ->
           << "layout.DataInjectionsDir", ToString(e.idx),
              Base(c.dataInjections[e.idx + 1].target) >>
      [] e.kind = "manifest" ->
           << "layout.ManifestsDir",
              c.manifests[e.m].name \o "-" \o ToString(e.idx) \o ".yaml" >>
      [] e.kind = "kustomization" ->
           << "layout.ManifestsDir",
              "kustomization-" \o c.manifests[e.m].name \o "-" \o ToString(e.idx)
                \o ".yaml" >>

\* The mode os.Chmod sets on dst: 0700 or 0600.
FileMode(executable, isDir) == IF executable \/ isDir THEN 448 ELSE 384

\* What an iteration for entry e that succeeds leaves at its destination: a
\* file or data injection is the copy of what its source materializes to, a
\* manifest is the copy of its source, a kustomization what kustomize.Build
\* renders. A file gets the mode of os.Chmod when that call succeeds (chmod)
\* and keeps the mode of the copy when it fails, the error being discarded
\* (_ = os.Chmod).
Written(c, e, chmod) ==
    LET at == Destination(c, e)
    IN  CASE e.kind = "file" ->
               LET file == c.files[e.idx + 1]
               IN  [path |-> at, content |-> file.source.content,
                    isDir |-> file.source.isDir,
                    mode |-> IF chmod
                             THEN FileMode(file.executable, file.source.isDir)
                             ELSE file.source.mode,
                    resolved |-> TRUE]
          [] e.kind = "data" ->
               LET data == c.dataInjections[e.idx + 1]
               IN  [path |-> at, content |-> data.source.content,
                    isDir |-> data.source.isDir, mode |-> data.source.mode,
                    resolved |-> TRUE]
          [] e.kind = "manifest" ->
               [path |-> at, content |-> c.manifests[e.m].files[e.idx + 1],
                isDir |-> FALSE, mode |-> 420, resolved |-> TRUE]
          [] e.kind = "kustomization" ->
               [path |-> at,
                content |-> "kustomize build "
                              \o c.manifests[e.m].kustomizations[e.idx + 1],
                isDir |-> FALSE, mode |-> 420, resolved |-> TRUE]

\* What an iteration that fails can leave behind: nothing; a part of what it
\* was writing at the destination; for a file, the complete copy that then
\* failed utils.SHAsMatch, or what archiver.Extract extracted when os.Rename
\* to the destination failed.
Leftovers(e) ==
    { "nothing", "partial" }
      \cup (IF e.kind = "file" THEN { "unverified", "extracted" } ELSE { })

\* The entry an iteration for entry e that fails leaves behind, with the mode
\* of the copy: addComponent returns before os.Chmod.
Left(c, e, how) ==
    LET whole == [Written(c, e, FALSE) EXCEPT !.resolved = FALSE]
    IN  CASE how = "partial" -> [whole EXCEPT !.content = "part of " \o @]
          [] how = "unverified" -> whole
          [] how = "extracted" ->
               [whole EXCEPT !.path = << @[1], @[2], "file.ExtractPath" >>]

LayoutInit ==
    /\ AssembleUnused
    /\ LoadUnused
    /\ PullUnused
    /\ ComposerUnused
    /\ OutputUnused
    /\ OrasUnused
    /\ BigBangUnused
    /\ ToolsUnused
    /\ SpinnerUnused
    /\ MultiSpinnerUnused
    /\ FindURLsUnused
    /\ layComponent \in LayoutComponents
    /\ laid = [r \in Runs |-> << >>]
    /\ layStage = [r \in Runs |-> "running"]

\* One iteration of the files, data injections or manifests loop in run r: the
\* entry is written, or addComponent returns the error of the call that
\* failed, with what the iteration wrote before that call left behind.
Materialize(r) ==
    /\ layStage[r] = "running"
    /\ Len(laid[r]) < Len(Entries(layComponent))
    /\ LET e == Entries(layComponent)[Len(laid[r]) + 1]
       IN  \E ok, chmod \in BOOLEAN : \E how \in Leftovers(e) :
             IF ok
             THEN /\ laid' = [laid EXCEPT ![r] = Append(@, Written(layComponent, e, chmod))]
                  /\ UNCHANGED layStage
             ELSE /\ layStage' = [layStage EXCEPT ![r] = "failed"]
                  /\ laid' = IF how = "nothing"
                             THEN laid
                             ELSE [laid EXCEPT ![r] = Append(@, Left(layComponent, e, how))]
    /\ UNCHANGED << notLayout, layComponent >>

\* The git repos and the after action of run r, and the return of addComponent.
FinishComponent(r) ==
    /\ layStage[r] = "running"
    /\ Len(laid[r]) = Len(Entries(layComponent))
    /\ \E ok \in BOOLEAN :
         layStage' = [layStage EXCEPT ![r] = IF ok THEN "returned" ELSE "failed"]
    /\ UNCHANGED << notLayout, layComponent, laid >>

LayoutNext == \E r \in Runs : Materialize(r) \/ FinishComponent(r)

\* Two runs of addComponent for one component definition.
LayoutSpec == LayoutInit /\ [][LayoutNext]_vars

\* ---------------------------------------------------------- orasRemote

\* registry.Reference: Registry, Repository and Reference (the tag).
References ==
    [ registry : { "docker.io", "registry-1.docker.io", "ghcr.io" },
      repository : { "library/pkg", "org/pkg" },
      reference : { "0.0.1" } ]

\* The key under which Docker stores the credentials of Docker Hub.
DockerHubKey == "https://index.docker.io/v1/"

\* The docker config: whether config.Load succeeds, whether the file holds
\* auth settings, and the keys the credential store answers with an error.
DockerConfigs ==
    [ loads : BOOLEAN, containsAuth : BOOLEAN,
      failing : SUBSET { DockerHubKey, "docker.io", "ghcr.io" } ]

\* What a call reads: the reference, the docker config, what isPlainHTTP
\* answers for the registry, whether remote.NewRepository takes the reference,
\* and the function called.
OrasInputs ==
    [ ref : References, cfg : DockerConfigs, plainHTTP : BOOLEAN, valid : BOOLEAN,
      entry : { "orasRemote", "orasAuthClient" } ]

\* The credential the store holds under key.
StoredCredential(key) == "credential of " \o key

\* ref.String()
RefString(ref) == ref.registry \o "/" \o ref.repository \o ":" \o ref.reference

\* orasCtxWithScopes(ref): the scopes of the context.
orasCtxWithScopes(ref) == << "repository:" \o ref.repository \o ":pull,push" >>

\* Mutant: every registry is looked up under its own host.
CredentialKey_Host(host) == host

\* The key orasAuthClient looks the credentials of registry host up under.
CredentialKey(host) ==
    IF host = "registry-1.docker.io" \/ host = "docker.io" THEN DockerHubKey ELSE host

OrasInit ==
    /\ AssembleUnused
    /\ LoadUnused
    /\ PullUnused
    /\ ComposerUnused
    /\ OutputUnused
    /\ LayoutUnused
    /\ BigBangUnused
    /\ ToolsUnused
    /\ SpinnerUnused
    /\ MultiSpinnerUnused
    /\ FindURLsUnused
    /\ orasIn \in OrasInputs
    /\ orasStage = orasIn.entry
    /\ orasRef = orasIn.ref
    /\ orasCtx = Nil
    /\ orasRepo = Nil
    /\ authClient = Nil
    /\ lookups = << >>
    /\ orasErr = Nil

\* orasRemote: docker.io is patched to registry-1.docker.io, and the context
\* is made.
PatchRegistry ==
    /\ orasStage = "orasRemote"
    /\ orasRef' = IF orasRef.registry = "docker.io"
                  THEN [orasRef EXCEPT !.registry = "registry-1.docker.io"]
                  ELSE orasRef
    /\ orasCtx' = orasCtxWithScopes(orasRef')
    /\ orasStage' = "NewRepository"
    /\ UNCHANGED << notOras, orasIn, orasRepo, authClient, lookups, orasErr >>

\* remote.NewRepository(ref.String()) and repo.PlainHTTP
NewRepository ==
    /\ orasStage = "NewRepository"
    /\ IF orasIn.valid
       THEN /\ orasRepo' = [reference |-> RefString(orasRef),
                            plainHTTP |-> orasIn.plainHTTP]
            /\ orasStage' = "orasAuthClient"
            /\ UNCHANGED orasErr
       ELSE /\ orasErr' = NewError("NewRepository")
            /\ orasStage' = "returned"
            /\ UNCHANGED orasRepo
    /\ UNCHANGED << notOras, orasIn, orasRef, orasCtx, authClient, lookups >>

\* orasAuthClient returns e with an empty client, and orasRemote returns e
\* with an empty repository.
AuthClientFails(e) ==
    /\ orasErr' = e
    /\ orasRepo' = Nil
    /\ authClient' = Nil
    /\ orasStage' = "returned"

\* p.orasAuthClient(ref), and in orasRemote repo.Client = authClient
orasAuthClient ==
    /\ orasStage = "orasAuthClient"
    /\ LET key == CredentialKey(orasRef.registry)
       IN  IF ~orasIn.cfg.loads
           THEN AuthClientFails(NewError("config.Load")) /\ UNCHANGED lookups
           ELSE IF ~orasIn.cfg.containsAuth
           THEN AuthClientFails(NewError("no docker config file found"))
                  /\ UNCHANGED lookups
           ELSE /\ lookups' = Append(lookups, key)
                /\ IF key \in orasIn.cfg.failing
                   THEN AuthClientFails(Wrap(<< "unable to get credentials for", key >>,
                                             NewError("Get")))
                   ELSE /\ authClient' = [host |-> orasRef.registry,
                                          credential |-> StoredCredential(key)]
                        /\ orasStage' = "returned"
                        /\ UNCHANGED << orasRepo, orasErr >>
    /\ UNCHANGED << notOras, orasIn, orasRef, orasCtx >>

orasRemote ==
    \/ PatchRegistry
    \/ NewRepository
    \/ orasAuthClient

\* One call of orasRemote, or of orasAuthClient.
OrasSpec == OrasInit /\ [][orasRemote]_vars

\* ------------------------------------------------------- bigbang.findURLs

\* Resources in a template.
MaxResources == 2

\* s.Kind of the resources.
ResourceKinds == { "GitRepository", "HelmRelease" }

\* s.Spec.URL of the resources.
ResourceURLs == { "", "https://repo1" }

\* One resource y of yamls: does yaml.Unmarshal([]byte(y), &s) fail, the
\* kind and the URL the resource states, whether it states spec.ref, and the
\* reference it states there. s.Spec.Reference is a pointer
\* (*GitRepositoryRef), nil for a resource without spec.ref, which states
\* none of commit, semver, tag and branch. A resource that fails to
\* unmarshal is kept with no reference: findURLs reads none of its fields.
Resources ==
    [ err : { FALSE }, kind : ResourceKinds, url : ResourceURLs, ref : { TRUE },
      commit : { "", "commit" }, semver : { "", "semver" },
      tag : { "", "tag" }, branch : { "", "branch" } ]
    \cup
    [ err : BOOLEAN, kind : ResourceKinds, url : ResourceURLs, ref : { FALSE },
      commit : { "" }, semver : { "" }, tag : { "" }, branch : { "" } ]

\* The templates findURLs is called with, as the resources they split into.
Templates == UNION { [ 1..n -> Resources ] : n \in 0..MaxResources }

\* fmt.Sprintf("%s@%s", s.Spec.URL, ref)
Sprintf(url, ref) == << url, "@", ref >>

\* What the read of a field through a nil s.Spec.Reference gives: the
\* runtime panics with a nil pointer dereference.
NilDereference == "panic: invalid memory address or nil pointer dereference"

\* ref := "master" and the switch on s.Spec.Reference: the first case,
\* s.Spec.Reference.Commit != "", dereferences the pointer, which panics
\* when it is nil; else the first case that holds assigns ref.
Reference(s) ==
    IF ~s.ref THEN NilDereference
    ELSE IF s.commit # "" THEN s.commit
    ELSE IF s.semver # "" THEN s.semver
    ELSE IF s.tag # "" THEN s.tag
    ELSE IF s.branch # "" THEN s.branch
    ELSE "master"

RECURSIVE findURLsFrom(_, _, _)
\* The loop for _, y := range yamls of findURLs from resource n on, urls
\* being the entries appended so far: a resource that fails to unmarshal is
\* skipped, a GitRepository with a URL appends its entry, and the panic of
\* the switch ends the loop with nothing returned.
findURLsFrom(yamls, n, urls) ==
    IF n > Len(yamls)
    THEN [urls |-> urls, panic |-> FALSE]
    ELSE LET s == yamls[n]
         IN  IF s.err
             THEN findURLsFrom(yamls, n + 1, urls)
             ELSE IF s.kind = "GitRepository" /\ s.url # ""
                  THEN IF Reference(s) = NilDereference
                       THEN [urls |-> << >>, panic |-> TRUE]
                       ELSE findURLsFrom(yamls, n + 1,
                                         Append(urls, Sprintf(s.url, Reference(s))))
                  ELSE findURLsFrom(yamls, n + 1, urls)

\* findURLs(t), t splitting into yamls: the urls it returns, or its panic.
findURLs(yamls) == findURLsFrom(yamls, 1, << >>)

\* findURLs is called with a template.
FindURLsInit ==
    /\ AssembleUnused
    /\ LoadUnused
    /\ PullUnused
    /\ ComposerUnused
    /\ OutputUnused
    /\ LayoutUnused
    /\ OrasUnused
    /\ BigBangUnused
    /\ ToolsUnused
    /\ SpinnerUnused
    /\ MultiSpinnerUnused
    /\ fuYamls \in Templates
    /\ fuUrls = << >>
    /\ fuStage = "called"

\* findURLs runs and returns, or panics, which ends the program.
FindURLs ==
    /\ fuStage = "called"
    /\ LET result == findURLs(fuYamls)
       IN  IF result.panic
           THEN /\ fuStage' = "panic"
                /\ UNCHANGED fuUrls
           ELSE /\ fuUrls' = result.urls
                /\ fuStage' = "returned"
    /\ UNCHANGED << notFindURLs, fuYamls >>

FindURLsSpec == FindURLsInit /\ [][FindURLs]_vars

\* ---------------------------------------------------------- bigbang.Run

\* The texts between the dots of the versions tried.
VersionParts == { "0", "1", "2", "9", "51", "52", "53", "100", "x", "" }

\* cfg.Version: texts of two, three and four parts.
BigBangVersions ==
    { a \o "." \o b : a \in { "1", "2" }, b \in { "52", "60" } }
      \cup { a \o "." \o b \o "." \o c :
               a \in VersionParts, b \in VersionParts, c \in { "0", "9", "x" } }
      \cup { "1.52.0.1", "v1.52.0", "1.52.0-rc1", "-1.52.0", "+1.52.0" }
      \cup { "1.99999999999.0", "99999999999.52.0", "-99999999999.52.0",
              "2147483647.2147483648.0", "-2147483648.52.0", "007.052.0",
              "9223372036854775807.9223372036854775808.0",
              "-9223372036854775809.52.0", "1.99999999999999999999.0",
              "99999999999999999999x.0.0", "1.99999999999999999999x.0",
              "1.-99999999999999999999x.0", "1.9223372036854775808x.0",
              "1.18446744073709551615x.0", "1.18446744073709551616.0",
              "1.0000000000000000000052.0", "1.x99999999999999999999.0" }

Digits == "0123456789"

\* The character ch is a decimal digit.
IsDigit(ch) == \E d \in 0..9 : SubSeq(Digits, d + 1, d + 1) = ch

DigitValue(ch) == CHOOSE d \in 0..9 : SubSeq(Digits, d + 1, d + 1) = ch

\* The text s is a non-empty sequence of decimal digits.
AllDigits(s) == s # "" /\ \A k \in 1..Len(s) : IsDigit(SubSeq(s, k, k))

\* An int of the 64-bit builds the repository makes, as its sign and the
\* decimal digits of its absolute value, without leading zeros: the checker's
\* own integers have 32 bits.
Int64(neg, abs) == [neg |-> neg /\ abs # "0", abs |-> abs]

\* The absolute values of math.MaxInt64, 1<<63 - 1, and of math.MinInt64.
MaxInt64 == "9223372036854775807"
MinInt64 == "9223372036854775808"

RECURSIVE TrimZeros(_)
\* The digits s without their leading zeros.
TrimZeros(s) ==
    IF Len(s) > 1 /\ SubSeq(s, 1, 1) = "0" THEN TrimZeros(SubSeq(s, 2, Len(s))) ELSE s

\* Of two absolute values, a is the smaller one.
LessAbs(a, b) ==
    \/ Len(a) < Len(b)
    \/ /\ Len(a) = Len(b)
       /\ \E k \in 1..Len(a) :
            /\ SubSeq(a, 1, k - 1) = SubSeq(b, 1, k - 1)
            /\ DigitValue(SubSeq(a, k, k)) < DigitValue(SubSeq(b, k, k))

\* x < y and x >= y for ints x and y.
Less(x, y) ==
    IF x.neg # y.neg THEN x.neg
    ELSE IF x.neg THEN LessAbs(y.abs, x.abs)
    ELSE LessAbs(x.abs, y.abs)

Geq(x, y) == ~Less(x, y)

\* The absolute value of 1<<64 - 1, the maxVal of strconv.ParseUint.
MaxUint64 == "18446744073709551615"

RECURSIVE ParseUintFrom(_, _)
\* The loop of strconv.ParseUint(s, 10, 64) with n read so far and the text s
\* still to read: a character that is no digit ends it with 0 and a syntax
\* error, a digit that takes the value beyond maxVal ends it with maxVal and
\* a range error, whatever follows that digit.
ParseUintFrom(n, s) ==
    IF s = "" THEN [n |-> n, err |-> "nil"]
    ELSE IF ~IsDigit(SubSeq(s, 1, 1)) THEN [n |-> "0", err |-> "ErrSyntax"]
    ELSE LET n1 == TrimZeros(n \o SubSeq(s, 1, 1))
         IN  IF LessAbs(MaxUint64, n1) THEN [n |-> MaxUint64, err |-> "ErrRange"]
             ELSE ParseUintFrom(n1, SubSeq(s, 2, Len(s)))

\* strconv.ParseUint(s, 10, 64)
ParseUint(s) ==
    IF s = "" THEN [n |-> "0", err |-> "ErrSyntax"] ELSE ParseUintFrom("0", s)

\* strconv.ParseInt(s, 10, 0) with its error dropped: 0 after a syntax error,
\* and the nearest int when the value read is beyond the ints.
ParseInt(s) ==
    LET signed == s # "" /\ SubSeq(s, 1, 1) \in { "+", "-" }
        neg == signed /\ SubSeq(s, 1, 1) = "-"
        un == ParseUint(IF signed THEN SubSeq(s, 2, Len(s)) ELSE s)
    IN  IF un.err = "ErrSyntax" THEN Int64(FALSE, "0")
        ELSE IF ~neg /\ ~LessAbs(un.n, MinInt64) THEN Int64(FALSE, MaxInt64)
        ELSE IF neg /\ LessAbs(MinInt64, un.n) THEN Int64(TRUE, MinInt64)
        ELSE Int64(neg, un.n)

\* strconv.Atoi with its error dropped. A text of 1 to 18 characters takes
\* the fast path: 0 when a character after the sign is no digit or none
\* follows the sign, the number otherwise. Any other text goes to ParseInt.
Atoi(s) ==
    LET signed == s # "" /\ SubSeq(s, 1, 1) \in { "+", "-" }
        digits == IF signed THEN SubSeq(s, 2, Len(s)) ELSE s
        neg == signed /\ SubSeq(s, 1, 1) = "-"
    IN  IF 0 < Len(s) /\ Len(s) < 19
        THEN IF AllDigits(digits) THEN Int64(neg, TrimZeros(digits))
             ELSE Int64(FALSE, "0")
        ELSE ParseInt(s)

RECURSIVE Split(_)
\* strings.Split(s, "."): the texts between the dots of s.
Split(s) ==
    LET dots == { k \in 1..Len(s) : SubSeq(s, k, k) = "." }
    IN  IF dots = {}
        THEN << s >>
        ELSE LET first == CHOOSE k \in dots : \A j \in dots : k <= j
             IN  << SubSeq(s, 1, first - 1) >> \o Split(SubSeq(s, first + 1, Len(s)))

\* isValidVersion(version)
isValidVersion(version) ==
    LET parts == Split(version)
    IN  /\ Len(parts) = 3
        /\ Geq(Atoi(parts[1]), Int64(FALSE, "1"))
        /\ Geq(Atoi(parts[2]), Int64(FALSE, "52"))

\* const bb
bb == "bigbang"

\* const bbRepo
bbRepo == "https://repo1.dso.mil/big-bang/bigbang.git"

\* c as Run reads it: c.Extensions.BigBang.SkipFlux and Repo, and c.Manifests,
\* c.Images and c.Repos, which the component declares none of; ValuesFiles
\* is empty.
BigBangComponents ==
    [ skipFlux : BOOLEAN, repo : { "", "https://mirror/bigbang.git" },
      manifests : { << >> }, images : { << >> }, repos : { << >> } ]

\* The manifest and the images getFlux returns.
FluxManifest == [name |-> "flux", files |-> << "flux.yaml" >>]
FluxImages == << "image-1" >>

\* The texts helmCfg.TemplateChart returns, as the resources they split into.
BigBangTemplates ==
    { << >>,
      << [err |-> FALSE, kind |-> "HelmRelease", url |-> "", ref |-> FALSE,
          commit |-> "", semver |-> "", tag |-> "", branch |-> ""],
         [err |-> FALSE, kind |-> "GitRepository", url |-> "https://repo1", ref |-> TRUE,
          commit |-> "", semver |-> "", tag |-> "tag", branch |-> ""] >>,
      << [err |-> FALSE, kind |-> "GitRepository", url |-> "https://repo1", ref |-> FALSE,
          commit |-> "", semver |-> "", tag |-> "", branch |-> ""] >> }

\* The images helm.FindImagesForChartRepo finds for a repo.
ChartImages == { << >>, << "image-1" >>, << "image-2", "image-1" >> }

\* The manifest addBigBangManifests returns when no call fails and
\* cfg.ValuesFiles is empty: the files addManifest wrote under manifestDir,
\* here "manifests", in order.
BigBangManifest ==
    [name |-> bb,
     files |-> << "manifests/gitrepository.yaml", "manifests/zarf-credentials.yaml",
                  "manifests/helmrepository.yaml" >>]

BigBangInit ==
    /\ AssembleUnused
    /\ LoadUnused
    /\ PullUnused
    /\ ComposerUnused
    /\ OutputUnused
    /\ LayoutUnused
    /\ OrasUnused
    /\ ToolsUnused
    /\ SpinnerUnused
    /\ MultiSpinnerUnused
    /\ FindURLsUnused
    /\ bbVersion \in BigBangVersions
    /\ bbC \in BigBangComponents
    /\ bbIdx = 0
    /\ bbStage = "CreateDirectory charts"
    /\ bbErr = Nil

\* utils.CreateDirectory(tmpPaths.Charts, 0700) and
\* utils.CreateDirectory(tmpPaths.Manifests, 0700)
CreateDirectories ==
    /\ bbStage \in { "CreateDirectory charts", "CreateDirectory manifests" }
    /\ \E ok \in BOOLEAN :
         IF ok
         THEN /\ bbStage' = IF bbStage = "CreateDirectory charts"
                            THEN "CreateDirectory manifests" ELSE "isValidVersion"
              /\ UNCHANGED bbErr
         ELSE /\ bbStage' = "returned"
              /\ bbErr' = Wrap(IF bbStage = "CreateDirectory charts"
                               THEN << "unable to create charts directory" >>
                               ELSE << "unable to create manifests directory" >>,
                               NewError("CreateDirectory"))
    /\ UNCHANGED << notBigBang, bbVersion, bbC, bbIdx >>

\* if !isValidVersion(cfg.Version) { return c, fmt.Errorf(...) }; then
\* cfg.Repo gets its default, through the pointer c.Extensions.BigBang, and
\* getFlux is called unless cfg.SkipFlux.
CheckVersion ==
    /\ bbStage = "isValidVersion"
    /\ IF isValidVersion(bbVersion)
       THEN /\ bbStage' = IF bbC.skipFlux THEN "TemplateChart" ELSE "getFlux"
            /\ bbC' = [bbC EXCEPT !.repo = IF @ = "" THEN bbRepo ELSE @]
            /\ UNCHANGED bbErr
       ELSE /\ bbStage' = "returned"
            /\ bbErr' = << << "invalid version:", bbVersion, "must be at least 1.52.0" >> >>
            /\ UNCHANGED bbC
    /\ UNCHANGED << notBigBang, bbVersion, bbIdx >>

\* getFlux(cfg): its error is returned as it is; else its manifest and its
\* images are appended to c.Manifests and c.Images.
GetFlux ==
    /\ bbStage = "getFlux"
    /\ \E ok \in BOOLEAN :
         IF ok
         THEN /\ bbC' = [bbC EXCEPT !.manifests = Append(@, FluxManifest),
                                    !.images = @ \o FluxImages]
              /\ bbStage' = "TemplateChart"
              /\ UNCHANGED bbErr
         ELSE /\ bbStage' = "returned"
              /\ bbErr' = NewError("getFlux")
              /\ UNCHANGED bbC
    /\ UNCHANGED << notBigBang, bbVersion, bbIdx >>

\* helmCfg.TemplateChart() on the chart downloaded from git: its error is
\* wrapped; else the Big Bang repo and the repos findURLs finds in the
\* template are appended to c.Repos. A panic of findURLs ends the program.
TemplateChart ==
    /\ bbStage = "TemplateChart"
    /\ \E ok \in BOOLEAN : \E template \in BigBangTemplates :
         IF ok
         THEN IF findURLs(template).panic
              THEN /\ bbStage' = "panic"
                   /\ UNCHANGED << bbC, bbIdx, bbErr >>
              ELSE /\ bbC' = [bbC EXCEPT
                                !.repos = Append(@, Sprintf(bbC.repo, bbVersion))
                                              \o findURLs(template).urls]
                   /\ bbIdx' = 1
                   /\ bbStage' = "FindImagesForChartRepo"
                   /\ UNCHANGED bbErr
         ELSE /\ bbStage' = "returned"
              /\ bbErr' = Wrap(<< "unable to template BigBang Chart" >>,
                               NewError("TemplateChart"))
              /\ UNCHANGED << bbC, bbIdx >>
    /\ UNCHANGED << notBigBang, bbVersion >>

\* One iteration of for _, r := range c.Repos: the error of
\* helm.FindImagesForChartRepo(r, "chart") is wrapped; else its images are
\* appended to c.Images, and after the last repo c.Images is made unique.
FindImagesForChartRepo ==
    /\ bbStage = "FindImagesForChartRepo"
    /\ \E ok \in BOOLEAN : \E images \in ChartImages :
         IF ok
         THEN /\ bbC' = [bbC EXCEPT !.images = IF bbIdx < Len(bbC.repos)
                                               THEN @ \o images
                                               ELSE Unique(@ \o images)]
              /\ bbIdx' = bbIdx + 1
              /\ bbStage' = IF bbIdx < Len(bbC.repos) THEN "FindImagesForChartRepo"
                            ELSE "addBigBangManifests"
              /\ UNCHANGED bbErr
         ELSE /\ bbStage' = "returned"
              /\ bbErr' = Wrap(<< "unable to find images for chart repo" >>,
                               NewError("FindImagesForChartRepo"))
              /\ UNCHANGED << bbC, bbIdx >>
    /\ UNCHANGED << notBigBang, bbVersion >>

\* addBigBangManifests(tmpPaths.Manifests, cfg): the error of the addManifest
\* that failed is returned as it is; else the manifest is appended to
\* c.Manifests and Run returns c.
AddBigBangManifests ==
    /\ bbStage = "addBigBangManifests"
    /\ \E ok \in BOOLEAN :
         /\ bbStage' = "returned"
         /\ bbErr' = IF ok THEN Nil ELSE NewError("addManifest")
         /\ bbC' = IF ok THEN [bbC EXCEPT !.manifests = Append(@, BigBangManifest)]
                   ELSE bbC
    /\ UNCHANGED << notBigBang, bbVersion, bbIdx >>

Run ==
    \/ CreateDirectories
    \/ CheckVersion
    \/ GetFlux
    \/ TemplateChart
    \/ FindImagesForChartRepo
    \/ AddBigBangManifests

\* One call of bigbang.Run.
BigBangSpec == BigBangInit /\ [][Run]_vars

\* ------------------------------------------------- NewConcurrencyTools

\* Largest number of workers.
MaxWorkers == 2

\* Mutant: the channels buffer one message less than there are workers.
NewConcurrencyTools_Short(length) ==
    [progressChan |-> length - 1, errorChan |-> length - 1, waitGroup |-> length]

\* NewConcurrencyTools(length): the buffer sizes of the two channels and the
\* counter of the WaitGroup.
NewConcurrencyTools(length) ==
    [progressChan |-> length, errorChan |-> length, waitGroup |-> length]

\* ContextDone(ctx)
ContextDone == ctxDone

ToolsInit ==
    /\ AssembleUnused
    /\ LoadUnused
    /\ PullUnused
    /\ ComposerUnused
    /\ OutputUnused
    /\ LayoutUnused
    /\ OrasUnused
    /\ BigBangUnused
    /\ SpinnerUnused
    /\ MultiSpinnerUnused
    /\ FindURLsUnused
    /\ \E length \in 1..MaxWorkers :
         /\ plan \in [1..length -> SUBSET { "progress", "error" }]
         /\ toolsCap = [c \in { "progressChan", "errorChan" } |->
                            NewConcurrencyTools(length)[c]]
         /\ waitGroup = NewConcurrencyTools(length).waitGroup
         /\ wpc = [w \in 1..length |-> "progress"]
    /\ progressChan = << >>
    /\ errorChan = << >>
    /\ ctxDone = FALSE
    /\ coordinator = "receiving"

\* Worker w is at a send on a channel whose buffer is full.
Blocked(w) ==
    \/ wpc[w] = "progress" /\ "progress" \in plan[w]
         /\ Len(progressChan) >= toolsCap["progressChan"]
    \/ wpc[w] = "error" /\ "error" \in plan[w]
         /\ Len(errorChan) >= toolsCap["errorChan"]

\* Worker w: at most one send on ProgressChan, at most one on ErrorChan, none
\* once it finds the context cancelled, then WaitGroup.Done().
Worker(w) ==
    /\ ~Blocked(w)
    /\ \/ /\ wpc[w] = "progress"
          /\ progressChan' = IF "progress" \in plan[w]
                             THEN Append(progressChan, w) ELSE progressChan
          /\ wpc' = [wpc EXCEPT ![w] = "error"]
          /\ UNCHANGED << errorChan, waitGroup >>
       \/ /\ wpc[w] = "error"
          /\ errorChan' = IF "error" \in plan[w] THEN Append(errorChan, w) ELSE errorChan
          /\ wpc' = [wpc EXCEPT ![w] = "Done"]
          /\ UNCHANGED << progressChan, waitGroup >>
       \/ /\ wpc[w] \in { "progress", "error" }
          /\ ContextDone
          /\ wpc' = [wpc EXCEPT ![w] = "Done"]
          /\ UNCHANGED << progressChan, errorChan, waitGroup >>
       \/ /\ wpc[w] = "Done"
          /\ waitGroup' = waitGroup - 1
          /\ wpc' = [wpc EXCEPT ![w] = "finished"]
          /\ UNCHANGED << progressChan, errorChan >>
    /\ UNCHANGED << notTools, plan, toolsCap, ctxDone, coordinator >>

\* The coordinator: it receives from both channels until the first error,
\* then cancels the context and stops receiving; WaitGroup.Wait() returns
\* when the counter is 0.
Coordinator ==
    /\ \/ /\ coordinator = "receiving"
          /\ progressChan # << >>
          /\ progressChan' = Tail(progressChan)
          /\ UNCHANGED << errorChan, ctxDone, coordinator >>
       \/ /\ coordinator = "receiving"
          /\ errorChan # << >>
          /\ errorChan' = Tail(errorChan)
          /\ ctxDone' = TRUE
          /\ coordinator' = "Wait"
          /\ UNCHANGED progressChan
       \/ /\ coordinator = "receiving"
          /\ \A w \in DOMAIN wpc : wpc[w] = "finished"
          /\ progressChan = << >> /\ errorChan = << >>
          /\ coordinator' = "Wait"
          /\ UNCHANGED << progressChan, errorChan, ctxDone >>
       \/ /\ coordinator = "Wait"
          /\ waitGroup = 0
          /\ coordinator' = "returned"
          /\ UNCHANGED << progressChan, errorChan, ctxDone >>
    /\ UNCHANGED << notTools, plan, toolsCap, waitGroup, wpc >>

ToolsNext == Coordinator \/ \E w \in DOMAIN wpc : Worker(w)

\* The workers and the coordinator, each scheduled again and again while it
\* can take a step, as goroutines are.
ToolsSpec ==
    /\ ToolsInit
    /\ [][ToolsNext]_vars
    /\ WF_vars(Coordinator)
    /\ \A w \in 1..MaxWorkers : WF_vars(w \in DOMAIN wpc /\ Worker(w))

\* -------------------------------------------------------- message.Spinner

\* The sections of addComponent that show a progress spinner, in the order of
\* the code: data injections, manifests, repos.
SpinnerSections == << "dataInjections", "manifests", "repos" >>

\* What decides the spinner calls of one addComponent: message.NoProgress,
\* which of len(component.DataInjections), len(component.Manifests) and
\* len(component.Repos) are positive, and whether the caller holds an active
\* spinner when it calls addComponent.
SpinnerConfigs ==
    [ noProgress : BOOLEAN,
      sections : SUBSET DOMAIN SpinnerSections,
      callerSpinner : BOOLEAN ]

\* Package message before any spinner was made.
NoSpinners == [activeSpinner |-> 0, spinners |-> << >>]

\* NewProgressSpinner on the package state st: the active spinner when there
\* is one; else a new Spinner, with a started pterm printer unless NoProgress,
\* becomes the active one.
NewProgressSpinner(st, noProgress) ==
    IF st.activeSpinner # 0
    THEN [st |-> st, result |-> st.activeSpinner]
    ELSE LET p == Len(st.spinners) + 1
         IN  [st |-> [activeSpinner |-> p,
                      spinners |-> Append(st.spinners,
                                          [printer |-> ~noProgress, isActive |-> ~noProgress])],
              result |-> p]

\* Mutant: Stop leaves activeSpinner alone when the spinner has no running
\* printer.
SpinnerStop_OnlyRunning(st, p) ==
    IF st.spinners[p].printer /\ st.spinners[p].isActive
    THEN [activeSpinner |-> 0, spinners |-> [st.spinners EXCEPT ![p].isActive = FALSE]]
    ELSE st

\* (p *Spinner) Stop(): the printer is stopped when there is one and it is
\* active, and activeSpinner becomes nil.
SpinnerStop(st, p) ==
    [activeSpinner |-> 0,
     spinners |-> IF st.spinners[p].printer /\ st.spinners[p].isActive
                  THEN [st.spinners EXCEPT ![p].isActive = FALSE]
                  ELSE st.spinners]

\* (p *Spinner) Successf(format, a...): p.spinner.Success(text), which prints
\* and stops the printer, when there is one; then p.Stop().
Successf(st, p) ==
    SpinnerStop(IF st.spinners[p].printer
                THEN [st EXCEPT !.spinners[p].isActive = FALSE]
                ELSE st, p)

\* (p *Spinner) Success(): p.Successf(p.startText)
Success(st, p) == Successf(st, p)

\* (p *Spinner) Warnf(format, a...), and Errorf, which calls it:
\* p.spinner.Warning(text), which prints and stops the printer, when there is
\* one; activeSpinner is left alone.
Warnf(st, p) ==
    IF st.spinners[p].printer THEN [st EXCEPT !.spinners[p].isActive = FALSE] ELSE st

\* (p *Spinner) Fatalf(err, format, a...), and Fatal, which calls it, up to
\* the call of message.Fatalf: when there is a printer it is stopped and
\* activeSpinner becomes nil.
Fatalf(st, p) ==
    IF st.spinners[p].printer
    THEN [activeSpinner |-> 0, spinners |-> [st.spinners EXCEPT ![p].isActive = FALSE]]
    ELSE st

RECURSIVE RunDeferred(_, _)
\* The deferred calls of spinner.Stop() at the return of addComponent, last
\* deferred first.
RunDeferred(st, d) ==
    IF d = << >>
    THEN st
    ELSE RunDeferred(SpinnerStop(st, d[Len(d)]), SubSeq(d, 1, Len(d) - 1))

\* Package message as the variables hold it.
MessageState == [activeSpinner |-> activeSpinner, spinners |-> spinners]

\* addComponent is called, after its files were handled; the caller may have
\* made a spinner that is still active.
SpinnerInit ==
    /\ AssembleUnused
    /\ LoadUnused
    /\ PullUnused
    /\ ComposerUnused
    /\ OutputUnused
    /\ LayoutUnused
    /\ OrasUnused
    /\ BigBangUnused
    /\ ToolsUnused
    /\ MultiSpinnerUnused
    /\ FindURLsUnused
    /\ spCfg \in SpinnerConfigs
    /\ LET st == IF spCfg.callerSpinner
                 THEN NewProgressSpinner(NoSpinners, spCfg.noProgress).st
                 ELSE NoSpinners
       IN  /\ activeSpinner = st.activeSpinner
           /\ spinners = st.spinners
    /\ spStage = "section"
    /\ spSection = 1
    /\ spLocal = 0
    /\ deferred = << >>
    /\ spLog = << >>

\* if len(...) > 0 { spinner := message.NewProgressSpinner(...); defer
\* spinner.Stop() ... }: a section the component does not have is passed over,
\* and after the last section addComponent runs the after actions and returns.
EnterSection ==
    /\ spStage = "section"
    /\ IF spSection > Len(SpinnerSections)
       THEN /\ spStage' = "return"
            /\ UNCHANGED << activeSpinner, spinners, spSection, spLocal, deferred, spLog >>
       ELSE IF spSection \notin spCfg.sections
            THEN /\ spSection' = spSection + 1
                 /\ UNCHANGED << activeSpinner, spinners, spStage, spLocal, deferred, spLog >>
            ELSE LET new == NewProgressSpinner(MessageState, spCfg.noProgress)
                 IN  /\ activeSpinner' = new.st.activeSpinner
                     /\ spinners' = new.st.spinners
                     /\ spLocal' = new.result
                     /\ deferred' = Append(deferred, new.result)
                     /\ spLog' = Append(spLog, [op |-> "NewProgressSpinner",
                                                on |-> new.result,
                                                before |-> activeSpinner,
                                                after |-> new.st.activeSpinner,
                                                made |-> Len(new.st.spinners) - Len(spinners)])
                     /\ spStage' = "loop"
                     /\ UNCHANGED spSection
    /\ UNCHANGED << notSpinner, spCfg >>

\* The loop of a section: an item fails and addComponent returns its error, or
\* every item is handled and spinner.Success() is called.
SectionLoop ==
    /\ spStage \in { "loop", "pulled" }
    /\ \E ok \in BOOLEAN :
         IF ok
         THEN LET st == Success(MessageState, spLocal)
              IN  /\ activeSpinner' = st.activeSpinner
                  /\ spinners' = st.spinners
                  /\ spLog' = Append(spLog, [op |-> "Success", on |-> spLocal,
                                             before |-> activeSpinner,
                                             after |-> st.activeSpinner, made |-> 0])
                  /\ spStage' = "section"
                  /\ spSection' = spSection + 1
         ELSE /\ spStage' = "return"
              /\ UNCHANGED << activeSpinner, spinners, spSection, spLog >>
    /\ UNCHANGED << notSpinner, spCfg, spLocal, deferred >>

\* gitCfg.Pull in the repos section, whose gitCfg holds the spinner
\* (git.NewWithSpinner): it may warn on it (Warnf, Errorf) and go on, or call
\* Fatal or Fatalf on it, and message.Fatalf ends the program: no deferred
\* call runs.
SpinnerCallee ==
    /\ spStage \in { "loop", "pulled" }
    /\ SpinnerSections[spSection] = "repos"
    /\ \E fatal \in BOOLEAN :
         /\ fatal \/ spStage = "loop"
         /\ LET st == IF fatal THEN Fatalf(MessageState, spLocal)
                      ELSE Warnf(MessageState, spLocal)
            IN  /\ activeSpinner' = st.activeSpinner
                /\ spinners' = st.spinners
                /\ spLog' = Append(spLog, [op |-> IF fatal THEN "Fatalf" ELSE "Warnf",
                                           on |-> spLocal, before |-> activeSpinner,
                                           after |-> st.activeSpinner, made |-> 0])
                /\ spStage' = IF fatal THEN "exited" ELSE "pulled"
    /\ UNCHANGED << notSpinner, spCfg, spSection, spLocal, deferred >>

\* return: the deferred calls run.
ReturnAddComponent ==
    /\ spStage = "return"
    /\ LET st == RunDeferred(MessageState, deferred)
       IN  /\ activeSpinner' = st.activeSpinner
           /\ spinners' = st.spinners
    /\ spStage' = "returned"
    /\ UNCHANGED << notSpinner, spCfg, spSection, spLocal, deferred, spLog >>

SpinnerNext ==
    \/ EnterSection
    \/ SectionLoop
    \/ SpinnerCallee
    \/ ReturnAddComponent

SpinnerSpec == SpinnerInit /\ [][SpinnerNext]_vars

\* --------------------------------------------------- message.MultiSpinner

\* Rows the MultiSpinners of the program hold at one time, all together.
MaxRows == 1

\* MultiSpinners made in one run.
MaxMultiSpinners == 2

\* var sequence: the frames of the spinner animation, ten distinct strings.
sequence ==
    << "frame 0", "frame 1", "frame 2", "frame 3", "frame 4",
       "frame 5", "frame 6", "frame 7", "frame 8", "frame 9" >>

\* var RowStatusSuccess
RowStatusSuccess == "success"

\* var RowStatusError
RowStatusError == "error"

\* NewMultiSpinnerRow(text).Status
NewMultiSpinnerRow == sequence[1]

\* The loop over sequence in renderText for a row whose Status was read as
\* status: the Status it assigns to the row, or "" when no frame equals status
\* and nothing is assigned. The frame at index f of the code (from 0) is
\* followed by the frame at (f+1) % len(sequence).
NextStatus(status) ==
    IF \E f \in DOMAIN sequence : sequence[f] = status
    THEN LET at == CHOOSE f \in DOMAIN sequence : sequence[f] = status
         IN  sequence[(at % Len(sequence)) + 1]
    ELSE ""

RECURSIVE renderText(_, _)
\* (m *MultiSpinner) renderText() run without interruption on rows, from row
\* idx on: the rows it leaves.
renderText(rows, idx) ==
    IF idx > Len(rows)
    THEN rows
    ELSE renderText(IF NextStatus(rows[idx]) = ""
                    THEN rows
                    ELSE [rows EXCEPT ![idx] = NextStatus(rows[idx])], idx + 1)

RECURSIVE RowsHeld(_)
\* The number of rows of the MultiSpinners in ms.
RowsHeld(ms) == IF ms = << >> THEN 0 ELSE Len(ms[1].rows) + RowsHeld(Tail(ms))

\* The locals of a renderText that is not running.
NoLocals == [idx |-> 0, row |-> "", len |-> 0, stale |-> FALSE, old |-> << >>]

\* The program is in no call.
Idle == [pc |-> "idle", m |-> 0, idx |-> 0, row |-> "", len |-> 0]

\* A goroutine has panicked: the program has ended.
Panicked ==
    \/ caller.pc = "panic"
    \/ \E m \in DOMAIN renderer : renderer[m] = "panic"

\* The program starts with no MultiSpinner.
MultiSpinnerInit ==
    /\ AssembleUnused
    /\ LoadUnused
    /\ PullUnused
    /\ ComposerUnused
    /\ OutputUnused
    /\ LayoutUnused
    /\ OrasUnused
    /\ BigBangUnused
    /\ ToolsUnused
    /\ SpinnerUnused
    /\ FindURLsUnused
    /\ msNoProgress \in BOOLEAN
    /\ activeMultiSpinner = 0
    /\ multi = << >>
    /\ renderer = << >>
    /\ rlocal = << >>
    /\ caller = Idle
    /\ settled = { }

\* The MultiSpinner NewMultiSpinner() returns: the active one when there is
\* one, else a new one.
NewMultiSpinnerResult ==
    IF activeMultiSpinner # 0 THEN activeMultiSpinner ELSE Len(multi) + 1

\* NewMultiSpinner(): the active MultiSpinner when there is one; else a new
\* one with a started area, which becomes the active one and gets a render
\* goroutine, unless NoProgress: then its area is stopped at once, none is
\* active and no goroutine is started.
NewMultiSpinner ==
    /\ ~Panicked
    /\ caller.pc = "idle"
    /\ activeMultiSpinner # 0 \/ Len(multi) < MaxMultiSpinners
    /\ IF activeMultiSpinner # 0
       THEN UNCHANGED << activeMultiSpinner, multi, renderer, rlocal >>
       ELSE LET m == NewMultiSpinnerResult
            IN  /\ multi' = Append(multi, [rows |-> << >>,
                                           area |-> IF msNoProgress THEN "stopped"
                                                    ELSE "started",
                                           stopCalled |-> FALSE])
                /\ activeMultiSpinner' = IF msNoProgress THEN 0 ELSE m
                /\ renderer' = Append(renderer, IF msNoProgress THEN "none" ELSE "for")
                /\ rlocal' = Append(rlocal, NoLocals)
    /\ UNCHANGED << notMultiSpinner, msNoProgress, caller, settled >>

\* The Status of a row a caller hands to Update: that of a row made by
\* NewMultiSpinnerRow, or one the caller has set.
RowStatuses == { NewMultiSpinnerRow, RowStatusSuccess, RowStatusError }

\* The slices of rows a caller hands to Update, by the Status of each row.
RowSlices == UNION { [1..n -> RowStatuses] : n \in 0..MaxRows }

\* (m *MultiSpinner) Update(rows): m.rows = rows. Under NoProgress the loop
\* over the old rows reads rows[i] and panics when rows is the shorter slice.
\* A renderText of the goroutine that is ranging over the old slice goes on
\* reading its rows from it.
Update(m, rows) ==
    /\ ~Panicked
    /\ caller.pc = "idle"
    /\ RowsHeld(multi) - Len(multi[m].rows) + Len(rows) <= MaxRows
    /\ IF msNoProgress /\ Len(rows) < Len(multi[m].rows)
       THEN /\ caller' = [Idle EXCEPT !.pc = "panic"]
            /\ UNCHANGED << multi, rlocal, settled >>
       ELSE /\ multi' = [multi EXCEPT ![m].rows = rows]
            /\ settled' = { at \in settled : at[1] # m }
            /\ rlocal' = IF renderer[m] \in { "range", "Status" } /\ ~rlocal[m].stale
                         THEN [rlocal EXCEPT ![m].stale = TRUE, ![m].old = multi[m].rows]
                         ELSE rlocal
            /\ UNCHANGED caller
    /\ UNCHANGED << notMultiSpinner, msNoProgress, activeMultiSpinner, renderer >>

\* (m *MultiSpinner) RowSuccess(index) and RowError(index) for a row m has,
\* the rows being counted from 1: m.rows[index].Status = status.
SetRowStatus(m, index, status) ==
    /\ ~Panicked
    /\ caller.pc = "idle"
    /\ multi' = [multi EXCEPT ![m].rows[index] = status]
    /\ settled' = settled \cup { << m, index >> }
    /\ UNCHANGED << notMultiSpinner, msNoProgress, activeMultiSpinner, renderer, rlocal,
                    caller >>

\* (m *MultiSpinner) RowSuccess(index)
RowSuccess(m, index) == SetRowStatus(m, index, RowStatusSuccess)

\* (m *MultiSpinner) RowError(index)
RowError(m, index) == SetRowStatus(m, index, RowStatusError)

\* (m *MultiSpinner) Stop(), one statement at a time on the caller's
\* goroutine: when some MultiSpinner is active and progress is shown,
\* m.renderText() (a row is read and its Status assigned in two steps),
\* m.area.Update(text) and m.area.Stop(); then activeMultiSpinner = nil.
MultiSpinnerStop(m) ==
    /\ ~Panicked
    /\ \/ /\ caller.pc = "idle"
          /\ caller' = IF activeMultiSpinner # 0 /\ ~msNoProgress
                       THEN [pc |-> IF multi[m].rows = << >> THEN "area.Update"
                                    ELSE "range",
                             m |-> m, idx |-> 1, row |-> "", len |-> Len(multi[m].rows)]
                       ELSE [Idle EXCEPT !.pc = "nil", !.m = m]
          /\ UNCHANGED << multi, activeMultiSpinner, settled >>
       \/ /\ caller.pc = "range"
          /\ caller.m = m
          /\ caller' = [caller EXCEPT !.pc = "Status", !.row = multi[m].rows[caller.idx]]
          /\ UNCHANGED << multi, activeMultiSpinner, settled >>
       \/ /\ caller.pc = "Status"
          /\ caller.m = m
          /\ multi' = IF NextStatus(caller.row) = ""
                      THEN multi
                      ELSE [multi EXCEPT ![m].rows[caller.idx] = NextStatus(caller.row)]
          /\ settled' = IF NextStatus(caller.row) = "" THEN settled
                        ELSE settled \ { << m, caller.idx >> }
          /\ caller' = [caller EXCEPT !.pc = IF caller.idx < caller.len THEN "range"
                                             ELSE "area.Update",
                                      !.idx = @ + 1, !.row = ""]
          /\ UNCHANGED activeMultiSpinner
       \/ /\ caller.pc = "area.Update"
          /\ caller.m = m
          /\ caller' = [Idle EXCEPT !.pc = "area.Stop", !.m = m]
          /\ UNCHANGED << multi, activeMultiSpinner, settled >>
       \/ /\ caller.pc = "area.Stop"
          /\ caller.m = m
          /\ multi' = [multi EXCEPT ![m].area = "stopped"]
          /\ caller' = [Idle EXCEPT !.pc = "nil", !.m = m]
          /\ UNCHANGED << activeMultiSpinner, settled >>
       \/ /\ caller.pc = "nil"
          /\ caller.m = m
          /\ activeMultiSpinner' = 0
          /\ multi' = [multi EXCEPT ![m].stopCalled = TRUE]
          /\ caller' = Idle
          /\ UNCHANGED settled
    /\ UNCHANGED << notMultiSpinner, msNoProgress, renderer, rlocal >>

\* The render goroutine of MultiSpinner m, one statement at a time:
\* for activeMultiSpinner != nil { text := m.renderText(); m.area.Update(text);
\* time.Sleep(delay) }. The loop test is one step; renderText evaluates
\* m.rows, the slice it ranges over, in the next (for idx, row := range
\* m.rows), then reads a row of that slice and assigns m.rows[idx].Status in
\* two steps; the assignment panics when m.rows has become shorter than idx.
Render(m) ==
    /\ ~Panicked
    /\ \/ /\ renderer[m] = "for"
          /\ renderer' = [renderer EXCEPT ![m] = IF activeMultiSpinner = 0 THEN "done"
                                                 ELSE "renderText"]
          /\ UNCHANGED << multi, rlocal, settled >>
       \/ /\ renderer[m] = "renderText"
          /\ renderer' = [renderer EXCEPT ![m] = IF multi[m].rows = << >> THEN "Update"
                                                 ELSE "range"]
          /\ rlocal' = [rlocal EXCEPT
                           ![m] = IF multi[m].rows = << >> THEN NoLocals
                                  ELSE [NoLocals EXCEPT !.idx = 1,
                                                        !.len = Len(multi[m].rows)]]
          /\ UNCHANGED << multi, settled >>
       \/ /\ renderer[m] = "range"
          /\ rlocal' = [rlocal EXCEPT
                           ![m].row = IF rlocal[m].stale THEN rlocal[m].old[rlocal[m].idx]
                                      ELSE multi[m].rows[rlocal[m].idx]]
          /\ renderer' = [renderer EXCEPT ![m] = "Status"]
          /\ UNCHANGED << multi, settled >>
       \/ /\ renderer[m] = "Status"
          /\ IF NextStatus(rlocal[m].row) # "" /\ rlocal[m].idx > Len(multi[m].rows)
             THEN /\ renderer' = [renderer EXCEPT ![m] = "panic"]
                  /\ rlocal' = [rlocal EXCEPT ![m] = NoLocals]
                  /\ UNCHANGED << multi, settled >>
             ELSE /\ multi' = IF NextStatus(rlocal[m].row) = ""
                              THEN multi
                              ELSE [multi EXCEPT ![m].rows[rlocal[m].idx] =
                                        NextStatus(rlocal[m].row)]
                  /\ settled' = IF NextStatus(rlocal[m].row) = "" THEN settled
                                ELSE settled \ { << m, rlocal[m].idx >> }
                  /\ rlocal' = [rlocal EXCEPT
                                   ![m] = IF rlocal[m].idx < rlocal[m].len
                                          THEN [@ EXCEPT !.idx = @ + 1, !.row = ""]
                                          ELSE NoLocals]
                  /\ renderer' = [renderer EXCEPT
                                     ![m] = IF rlocal[m].idx < rlocal[m].len THEN "range"
                                            ELSE "Update"]
       \/ /\ renderer[m] = "Update"
          /\ renderer' = [renderer EXCEPT ![m] = "for"]
          /\ UNCHANGED << multi, rlocal, settled >>
    /\ UNCHANGED << notMultiSpinner, msNoProgress, activeMultiSpinner, caller >>

\* The calls of the program on package message and the steps of the render
\* goroutines; none is taken once a goroutine has panicked.
MultiSpinnerNext ==
    \/ NewMultiSpinner
    \/ \E m \in DOMAIN multi : \E rows \in RowSlices : Update(m, rows)
    \/ \E m \in DOMAIN multi : \E index \in DOMAIN multi[m].rows : RowSuccess(m, index)
    \/ \E m \in DOMAIN multi : \E index \in DOMAIN multi[m].rows : RowError(m, index)
    \/ \E m \in DOMAIN multi : MultiSpinnerStop(m)
    \/ \E m \in DOMAIN renderer : Render(m)

\* Every render goroutine that can take a step eventually takes one.
MultiSpinnerSpec ==
    /\ MultiSpinnerInit
    /\ [][MultiSpinnerNext]_vars
    /\ \A m \in 1..MaxMultiSpinners :
         WF_vars(m \in DOMAIN renderer /\ Render(m))

\* --------------------------------------------------------------- claims

\* The calls of the body of addComponent that process the component's content.
BodyOps ==
    { "charts", "files", "dataInjections", "manifestFiles", "kustomizations", "repos" }

Last(s) == s[Len(s)]

\* The text of error e starts with the tokens of prefix.
HasPrefix(e, prefix) ==
    /\ e # Nil
    /\ Len(e[1]) >= Len(prefix)
    /\ SubSeq(e[1], 1, Len(prefix)) = prefix

\* C1: when the before actions of a component fail, no chart, file, data
\* injection, manifest, repo or after action of that component is processed,
\* nothing but the component's onFailure actions runs afterwards, and Assemble
\* returns only after they ran, with the before-action error wrapped.
C1_BeforeFailureAbortsComponent ==
    \A j \in DOMAIN log :
        (log[j].op = "before" /\ ~log[j].ok) =>
            /\ \A l \in DOMAIN log :
                    log[l].c = log[j].c => log[l].op \notin BodyOps \cup { "after", "onSuccess" }
            /\ \A l \in DOMAIN log :
                    l > j => l = j + 1 /\ log[l].op = "onFailure" /\ log[l].c = log[j].c
            /\ returned <=> Len(log) = j + 1
            /\ ~returned => stage = "addComponentFailed"
            /\ returned =>
                   /\ HasPrefix(err, << "unable to add component", ComponentName(log[j].c),
                                        "unable to run component before action" >>)
                   /\ Unwrap(Unwrap(err)) = NewError("actions.Run")

\* C1 witness: Assemble has returned after the before actions of a component
\* that declares content failed and its onFailure actions ran.
C1_Witness ==
    /\ returned
    /\ Len(log) >= 2
    /\ log[Len(log) - 1].op = "before"
    /\ ~log[Len(log) - 1].ok
    /\ Last(log).op = "onFailure"
    /\ ComponentSize(Components[Last(log).c]) >= 2

\* C2: when the after actions of a component fail (its body having completed),
\* the component's onFailure actions run next and Assemble returns only after
\* them, with the after-action error wrapped.
C2_AfterFailureRunsOnFailure ==
    \A j \in DOMAIN log :
        (log[j].op = "after" /\ ~log[j].ok) =>
            /\ \A l \in DOMAIN log :
                    (l < j /\ log[l].c = log[j].c) => log[l].ok
            /\ \A l \in DOMAIN log :
                    l > j => l = j + 1 /\ log[l].op = "onFailure" /\ log[l].c = log[j].c
            /\ returned <=> Len(log) = j + 1
            /\ ~returned => stage = "addComponentFailed"
            /\ returned =>
                   /\ HasPrefix(err, << "unable to add component", ComponentName(log[j].c),
                                        "unable to run component after action" >>)
                   /\ Unwrap(Unwrap(err)) = NewError("actions.Run")

\* C2 witness: Assemble has returned after a component's body ran to its end,
\* its after actions failed and its onFailure actions ran.
C2_Witness ==
    /\ returned
    /\ Len(log) >= 4
    /\ log[Len(log) - 1].op = "after"
    /\ ~log[Len(log) - 1].ok
    /\ log[Len(log) - 2].op \in BodyOps
    /\ log[Len(log) - 2].ok
    /\ Last(log).op = "onFailure"

\* C3: whenever Assemble returns after running onFailure actions, whatever
\* their outcome, the error it returns wraps the error of the failed call
\* (addComponent's, or the success actions'), under the message of that call.
C3_OnFailureErrorNotPropagated ==
    (returned /\ log # << >> /\ Last(log).op = "onFailure") =>
        /\ Len(log) >= 2
        /\ ~log[Len(log) - 1].ok
        /\ log[Len(log) - 1].c = Last(log).c
        /\ pending # Nil
        /\ Unwrap(err) = pending
        /\ err[1] = (IF log[Len(log) - 1].op = "onSuccess"
                     THEN << "unable to run component success action" >>
                     ELSE << "unable to add component", ComponentName(Last(log).c) >>)
                    \o pending[1]

\* C3 witness: Assemble has returned the error of a failed body call although
\* the onFailure actions failed too.
C3_Witness ==
    /\ returned
    /\ log # << >>
    /\ Last(log).op = "onFailure"
    /\ ~Last(log).ok
    /\ log[Len(log) - 1].op \in BodyOps
    /\ err # Nil

\* The file a "files" event of the history is about.
FileOf(e) == Components[e.c].files[e.n]

Mismatched(file) == file.shasum # "" /\ file.shasum # file.actual

\* C4: a file whose content does not hash to its declared shasum fails its
\* component: nothing but the component's onFailure actions runs afterwards and
\* Assemble returns an error; and Assemble returns nil only if no file of the
\* package mismatches its declared shasum.
C4_IntegrityGate ==
    /\ \A j \in DOMAIN log :
           (log[j].op = "files" /\ Mismatched(FileOf(log[j]))) =>
               /\ ~log[j].ok
               /\ \A l \in DOMAIN log :
                      l > j => l = j + 1 /\ log[l].op = "onFailure" /\ log[l].c = log[j].c
               /\ attempts = 0
               /\ returned => err # Nil
    /\ (returned /\ err = Nil) =>
           \A k \in DOMAIN Components : \A n \in DOMAIN Components[k].files :
               ~Mismatched(Components[k].files[n])

\* C4 witness: Assemble has returned an error after the first file of a
\* component mismatched its shasum, and the package declares more after it.
C4_Witness ==
    /\ returned
    /\ err = AddComponentError(1, NewError("SHAsMatch"))
    /\ Len(log) >= 2
    /\ log[Len(log) - 1].op = "files"
    /\ log[Len(log) - 1].n = 1
    /\ ComponentSize(Components[1]) >= 2
    /\ Len(Components) >= 2

AddComponentOps == { "create", "before", "after" } \cup BodyOps

IsAddComponentStep(e) == e.op \in AddComponentOps

\* The calls of addComponent for component k that the history holds, in order.
StepsOf(k) ==
    LET OfComponent(e) == e.c = k /\ IsAddComponentStep(e)
    IN  SelectSeq(log, OfComponent)

RECURSIVE ManifestSteps(_, _)
\* The calls the claim orders for the manifests from the m-th of ms on: per
\* manifest its literal files, then its kustomizations.
ManifestSteps(ms, m) ==
    IF m > Len(ms)
    THEN << >>
    ELSE [ n \in 1..ms[m].files |-> << "manifestFiles", m, n >> ]
         \o [ n \in 1..ms[m].kustomizations |-> << "kustomizations", m, n >> ]
         \o ManifestSteps(ms, m + 1)

\* The calls of addComponent for component c in the order the claim gives.
DeclaredSteps(c) ==
    << << "create", 0, 0 >>, << "before", 0, 0 >> >>
    \o [ n \in 1..c.charts |-> << "charts", 0, n >> ]
    \o [ n \in 1..Len(c.files) |-> << "files", 0, n >> ]
    \o [ n \in 1..c.dataInjections |-> << "dataInjections", 0, n >> ]
    \o ManifestSteps(c.manifests, 1)
    \o [ n \in 1..c.repos |-> << "repos", 0, n >> ]
    \o << << "after", 0, 0 >> >>

\* C5: the calls of addComponent for one component happen in the order before
\* actions, charts, files, data injections, manifests (per manifest its files,
\* then its kustomizations), repos, after actions: at every moment the calls
\* made so far are the first calls of that list, none skipped, and every call
\* but the last has succeeded, so the first error is the component's last call.
C5_AddComponentStepOrder ==
    \A k \in DOMAIN Components :
        LET steps == StepsOf(k)
            declared == DeclaredSteps(Components[k])
        IN  /\ Len(steps) <= Len(declared)
            /\ \A x \in DOMAIN steps :
                   /\ << steps[x].op, steps[x].m, steps[x].n >> = declared[x]
                   /\ x < Len(steps) => steps[x].ok

\* C5 witness: the after actions of a component ran after calls of three
\* different loops of its body.
C5_Witness ==
    \E k \in DOMAIN Components :
        LET steps == StepsOf(k)
        IN  /\ steps # << >>
            /\ Last(steps).op = "after"
            /\ Cardinality({ steps[x].op : x \in DOMAIN steps } \cap BodyOps) >= 3

\* Component k ran to the end of its loop body: body, success actions, SBOM
\* file listing (unless skipped) and image references, all without error.
Completed(k, before) ==
    /\ \E j \in 1..(before - 1) : log[j] = Event("after", k, 0, 0, TRUE)
    /\ \E j \in 1..(before - 1) : log[j] = Event("onSuccess", k, 0, 0, TRUE)
    /\ pkg.skipSBOM \/ \E j \in 1..(before - 1) : log[j] = Event("getFilesToSBOM", k, 0, 0, TRUE)
    /\ \E j \in 1..(before - 1) : log[j] = Event("images", k, 0, 0, TRUE)
    /\ \A j \in 1..(before - 1) : log[j].c = k => log[j].ok

\* The calls made for a component after component k.
LaterCalls(k) == { l \in DOMAIN log : log[l].c > k }

Min(S) == CHOOSE x \in S : \A y \in S : x <= y

\* C6: components are processed in declared order: the first call for any
\* component after component k is made only when component k ran to the end of
\* its loop body without error, no call for k follows it, and after a failed
\* call nothing of another component runs.
C6_ComponentOrder ==
    /\ \A k \in DOMAIN Components :
           LET later == LaterCalls(k)
           IN  later # {} =>
                   /\ Completed(k, Min(later))
                   /\ \A l \in DOMAIN log : l > Min(later) => log[l].c # k
    /\ \A j \in DOMAIN log :
           (~log[j].ok /\ log[j].c >= 1) =>
               \A l \in DOMAIN log : l > j => log[l].c = log[j].c

\* C6 witness: a call of the second component has failed after the first
\* component, which declares content, ran to its end.
C6_Witness ==
    /\ returned
    /\ err # Nil
    /\ Len(Components) >= 2
    /\ ComponentSize(Components[1]) >= 1
    /\ \E l \in DOMAIN log : log[l].c = 2 /\ log[l].op \in BodyOps /\ ~log[l].ok

RECURSIVE DeclaredRefs(_)
\* The normalized references of the images of the first k components, in
\* declaration order.
DeclaredRefs(k) ==
    IF k = 0
    THEN << >>
    ELSE DeclaredRefs(k - 1) \o
         [ n \in DOMAIN Components[k].images |-> ParseImageRef(Components[k].images[n]).ref ]

Range(s) == { s[n] : n \in DOMAIN s }

\* The index of the first occurrence of x in s.
FirstIndex(s, x) == CHOOSE n \in DOMAIN s : s[n] = x /\ \A m \in 1..(n - 1) : s[m] # x

\* C7: the image list handed to the puller holds every normalized reference
\* the components declare, each once, ordered by first occurrence in the
\* concatenation of the components' image lists.
C7_ImageListDeduplicated ==
    (stage = "pull" \/ attempts > 0) =>
        LET all == DeclaredRefs(Len(Components))
        IN  /\ Range(imageList) = Range(all)
            /\ \A a, b \in DOMAIN imageList :
                   a < b => /\ imageList[a] # imageList[b]
                            /\ FirstIndex(all, imageList[a]) < FirstIndex(all, imageList[b])

\* C7 witness: a:1, b:2, a:1 are declared and the list about to be pulled is
\* the normalized a:1, b:2.
C7_Witness ==
    /\ stage = "pull"
    /\ DeclaredRefs(Len(Components))
         = << "docker.io/library/a:1", "docker.io/library/b:2", "docker.io/library/a:1" >>
    /\ imageList = << "docker.io/library/a:1", "docker.io/library/b:2" >>

PullEvents == { j \in DOMAIN log : log[j].op = "PullAll" }

\* C8: a successful pull attempt is the last attempt and Assemble goes on
\* with the pulled images, returning nil when every later call succeeds and
\* never the pull error; a failed first or second attempt does not make
\* Assemble return.
C8_PullSucceedsWithinThreeAttempts ==
    \A j \in PullEvents :
        /\ log[j].ok =>
               /\ \A l \in PullEvents : l <= j
               /\ j = Len(log) => ~returned /\ stage = "addImages"
               /\ returned =>
                      /\ err = Nil <=> \A l \in DOMAIN log : l > j => log[l].ok
                      /\ ~HasPrefix(err, << "unable to pull images after 3 attempts" >>)
        /\ (~log[j].ok /\ log[j].n < 3 /\ j = Len(log)) => ~returned /\ stage = "pull"

\* C8 witness: Assemble has returned nil after a pull that failed twice and
\* succeeded on the third attempt.
C8_Witness ==
    /\ returned
    /\ err = Nil
    /\ \E j \in DOMAIN log :
           /\ j + 2 \in DOMAIN log
           /\ log[j] = Event("PullAll", 0, 0, 1, FALSE)
           /\ log[j + 1] = Event("PullAll", 0, 0, 2, FALSE)
           /\ log[j + 2] = Event("PullAll", 0, 0, 3, TRUE)

\* C9: pull attempts are numbered 1, 2, 3 and there is no fourth; when the
\* third fails Assemble returns at once "unable to pull images after 3
\* attempts" wrapping an error that names an image of the list, no image was
\* added to the layout and no SBOM catalog was made.
C9_PullFailsAfterThreeAttempts ==
    \A j \in PullEvents :
        /\ log[j].n = Cardinality({ l \in PullEvents : l <= j })
        /\ log[j].n <= 3
        /\ (log[j].n = 3 /\ ~log[j].ok) =>
               /\ returned
               /\ j = Len(log)
               /\ HasPrefix(err, << "unable to pull images after 3 attempts" >>)
               /\ \E k \in DOMAIN imageList : imageList[k] \in Range(err[1])
               /\ Unwrap(err) # Nil
               /\ layoutImages = << >>
               /\ catalog = << >>

\* C9 witness: the third pull attempt has failed and Assemble has returned
\* its fixed text before the error of PullAll.
C9_Witness ==
    /\ returned
    /\ imageList # << >>
    /\ log # << >>
    /\ Last(log) = Event("PullAll", 0, 0, 3, FALSE)
    /\ err = Wrap(<< "unable to pull images after 3 attempts" >>, NewError("PullAll"))

\* C10: PullAll is called only when every component of the package ran to the
\* end of its loop body without error and the deduplicated image list is not
\* empty; the pull attempts are consecutive, and no call for a component is
\* made after the first of them.
C10_PullAfterAllComponents ==
    LET pulls == PullEvents
    IN  /\ pulls # {} =>
               LET first == Min(pulls)
               IN  /\ \A k \in DOMAIN Components : Completed(k, first)
                   /\ \A l \in 1..(first - 1) : log[l].ok
                   /\ imageList # << >>
                   /\ \A l \in DOMAIN log : l > first => log[l].c = 0
                   /\ pulls = first..(first + Cardinality(pulls) - 1)
        /\ (\E j \in DOMAIN log : log[j].c >= 1 /\ ~log[j].ok) => pulls = {} /\ attempts = 0
        /\ (imageList = << >> /\ stage \in { "catalog", "returned" }) =>
               pulls = {} /\ attempts = 0

\* C10 witness: PullAll has been called for a package of two components.
C10_Witness ==
    /\ PullEvents # {}
    /\ Len(Components) >= 2
    /\ Components[1].images # << >>

\* The references of a sequence of pulled images, in order.
Refs(p) == [k \in DOMAIN p |-> p[k].ref]

\* The pulled images that have image layers, in order.
WithLayers(p) == SelectSeq(p, LAMBDA info : info.hasImageLayers)

\* C11: the images added to the layout are the pulled images the loop has
\* reached, in pull-result order, and sbomImageList holds exactly those of
\* them that have image layers, in the same order; once the loop is over
\* every pulled image is in the layout, and the SBOM catalog is made from
\* exactly the layer-bearing pulled images.
C11_LayerImagesToSBOM ==
    LET added == SubSeq(pulled, 1, Len(layoutImages))
    IN  /\ Len(layoutImages) <= Len(pulled)
        /\ layoutImages = Refs(added)
        /\ sbomImageList = Refs(WithLayers(added))
        /\ stage = "addImages" => Len(layoutImages) = i - 1
        /\ (stage = "catalog" \/ catalog # << >>) => Len(layoutImages) = Len(pulled)
        /\ \A j \in DOMAIN catalog : catalog[j].images = Refs(WithLayers(pulled))

\* C11 witness: a catalog was made after a pull of two images of which only
\* the second has image layers.
C11_Witness ==
    /\ catalog # << >>
    /\ Len(pulled) = 2
    /\ ~pulled[1].hasImageLayers
    /\ pulled[2].hasImageLayers
    /\ layoutImages = << pulled[1].ref, pulled[2].ref >>
    /\ catalog[1].images = << pulled[2].ref >>

\* loadDifferentialData has returned without error: the version tests ran.
VersionTestsReached ==
    \E j \in DOMAIN loadLog : loadLog[j] = Called("loadDifferentialData", TRUE)

LoadReturned == loadStage = "returned"

\* C12: with differential packaging enabled and the base version equal to the
\* package's own version, LoadPackageDefinition never returns a package and
\* never reaches removeCopiesFromDifferentialPackage; once the differential
\* data is loaded it has returned the "same version" error, with no package
\* and no warnings.
C12_SameVersionError ==
    (loadCfg.differential /\ loadCfg.differentialPackageVersion = loadCfg.version) =>
        /\ loadStage # "removeCopiesFromDifferentialPackage"
        /\ LoadReturned => loadResult.pkg = "nil" /\ loadResult.err # Nil
        /\ VersionTestsReached =>
               /\ LoadReturned
               /\ loadResult = [pkg |-> "nil", warnings |-> << >>,
                                err |-> NewError(PkgCreateErrDifferentialSameVersion)]

\* C12 witness: the "same version" error was returned for two equal versions
\* that are set.
C12_Witness ==
    /\ loadCfg.differential
    /\ loadCfg.differentialPackageVersion = "v1"
    /\ loadCfg.version = "v1"
    /\ LoadReturned
    /\ loadResult.err = NewError(PkgCreateErrDifferentialSameVersion)

\* C13: with differential packaging enabled and the base version or the
\* package's own version empty (both empty included), once the differential
\* data is loaded LoadPackageDefinition has returned the "no version set"
\* error.
C13_NoVersionError ==
    ( /\ loadCfg.differential
      /\ loadCfg.differentialPackageVersion = "" \/ loadCfg.version = ""
      /\ VersionTestsReached ) =>
        /\ LoadReturned
        /\ loadResult.err = NewError(PkgCreateErrDifferentialNoVersion)

\* The work LoadPackageDefinition does on the package before it returns.
LoadWork ==
    { "ComposeComponents", "FillActiveTemplate", "processExtensions", "loadDifferentialData" }

\* C14: with differential packaging enabled and a version pair that violates
\* a precondition (equal versions, or one of them empty), LoadPackageDefinition
\* has not composed components, filled templates, processed extensions or
\* loaded the differential data.
C14_PreconditionsBeforeWork ==
    ( /\ loadCfg.differential
      /\ \/ loadCfg.differentialPackageVersion = loadCfg.version
         \/ loadCfg.differentialPackageVersion = ""
         \/ loadCfg.version = "" ) =>
        \A j \in DOMAIN loadLog : loadLog[j].call \notin LoadWork

\* pullOCIZarfPackage has returned nil.
PullSucceeded == pullStage = "returned" /\ pullErr = Nil

\* The complete file of layer k.
CompleteFile(k) == File(Content(k, layers[k].size))

\* The steps of the current pull made for layer k, in order.
LayerSteps(k) == SelectSeq(pullLog, LAMBDA e : e.layer = k)

\* The operations and outcomes of a sequence of steps.
Outcomes(steps) == [j \in DOMAIN steps |-> << steps[j].op, steps[j].ok >>]

\* C15: in every pull, a layer is skipped exactly when os.Stat found a file of
\* the descriptor's size at its path; a skipped layer has no fetch, create or
\* write step and its file is the file os.Stat found; a layer that is not
\* skipped is fetched next, and when the pull returns nil every layer was
\* examined once, in manifest order, and every layer not skipped was fetched,
\* created and written with the fetched content.
C15_SkipOnSizeMatch ==
    /\ \A j \in DOMAIN pullLog :
           LET e == pullLog[j]
               k == e.layer
           IN  e.op = "Stat" =>
                   /\ e.ok <=> (e.file.exists /\ Len(e.file.data) = layers[k].size)
                   /\ e.ok => /\ FileAt(k) = e.file
                              /\ Outcomes(LayerSteps(k)) = << << "Stat", TRUE >> >>
                   /\ ~e.ok =>
                          /\ j = Len(pullLog) => pullStage = "FetchAll"
                          /\ j < Len(pullLog) =>
                                 /\ pullLog[j + 1].op \in { "FetchAll", "interrupt" }
                                 /\ pullLog[j + 1].op = "FetchAll" => pullLog[j + 1].layer = k
                          /\ PullSucceeded =>
                                 /\ Outcomes(LayerSteps(k)) =
                                        << << "Stat", FALSE >>, << "FetchAll", TRUE >>,
                                           << "Create", TRUE >>, << "Write", TRUE >> >>
                                 /\ FileAt(k) = CompleteFile(k)
    /\ PullSucceeded =>
           LET stats == SelectSeq(pullLog, LAMBDA e : e.op = "Stat")
           IN  [j \in DOMAIN stats |-> stats[j].layer] = [j \in DOMAIN layers |-> j]

\* C15 witness: the first layer was skipped, and the file os.Stat found for
\* it is no longer at its path: the second layer, of the same title and
\* another size, was created there.
C15_Witness ==
    /\ Len(layers) = 2
    /\ Path(layers[1]) = Path(layers[2])
    /\ \E j \in DOMAIN pullLog :
           /\ pullLog[j].op = "Stat"
           /\ pullLog[j].layer = 1
           /\ pullLog[j].ok
           /\ FileAt(1) # pullLog[j].file

\* The file holds a part of the content of layer k, and not all of it.
HalfWritten(file, k) ==
    /\ file.exists
    /\ Len(file.data) < layers[k].size
    /\ file.data = SubSeq(Content(k, layers[k].size), 1, Len(file.data))

\* The file at the path of layer k holds a part, and not all, of the content
\* of a layer of that path.
HalfWrittenAt(file, k) ==
    \E l \in DOMAIN layers : Path(layers[l]) = Path(layers[k]) /\ HalfWritten(file, l)

\* C16: a pull never skips a layer at whose path the file is half-written: it
\* fetches the layer, and when the pull returns nil the file holds the
\* complete content; no layer's file is half-written when a pull has returned
\* nil.
C16_HalfWrittenNeverComplete ==
    /\ \A j \in DOMAIN pullLog :
           LET e == pullLog[j]
           IN  (e.op = "Stat" /\ HalfWrittenAt(e.file, e.layer)) =>
                   /\ ~e.ok
                   /\ j = Len(pullLog) => pullStage = "FetchAll"
                   /\ PullSucceeded => FileAt(e.layer) = CompleteFile(e.layer)
    /\ PullSucceeded => \A k \in DOMAIN layers : ~HalfWrittenAt(FileAt(k), k)

\* C16 witness: the second pull has skipped the first layer, of one byte,
\* because it found one of the two bytes of the second layer, which has the
\* same title, in the file.
C16_Witness ==
    /\ pullCalls = 2
    /\ Len(layers) = 2
    /\ Path(layers[1]) = Path(layers[2])
    /\ layers[1].size = 1
    /\ layers[2].size = 2
    /\ \E j \in DOMAIN pullLog :
           pullLog[j] = PullStep("Stat", 1, TRUE, File(<< << 2, 1 >> >>))

\* The call of fetchOCISkeleton by execution p has returned nil.
FetchedNil(p) == skStage[p] = "returned" /\ fetchErr[p] = Nil

\* The operations of the steps the current call of execution p has made.
TracedOps(p) == { trace[p][j].op : j \in DOMAIN trace[p] }

\* The steps that copy the component layer from the registry.
CopyOps == { "CopyWithProgress", "copied" }

\* C17: over calls of fetchOCISkeleton made one after the other for the same
\* digest and cache, the layer is copied from the registry at most once, and
\* once when the first call found no blob and returned nil; store.Exists
\* reports a blob exactly when one is in the cache, a call that is told so
\* copies nothing, and a copy is made only right after Exists found no blob.
C17_LayerTransferredOnce ==
    /\ transfers <= 1
    /\ transfers = 1 => BlobState = "complete"
    /\ \A p \in active :
           LET t == trace[p]
           IN  /\ \A j \in DOMAIN t :
                      /\ t[j].op = "Exists" =>
                             /\ t[j].ok <=> t[j].seen = "complete"
                             /\ t[j].ok => TracedOps(p) \cap CopyOps = {}
                      /\ t[j].op = "CopyWithProgress" =>
                             j > 1 /\ t[j - 1] = Traced("Exists", FALSE, "absent")
               /\ (t # << >> /\ t[1].seen = "complete") => TracedOps(p) \cap CopyOps = {}
               /\ ( /\ fetchCalls[p] = 1
                    /\ FetchedNil(p)
                    /\ t[1] = Traced("ContainsOCIImport", TRUE, "absent") ) => transfers = 1
               /\ (FetchedNil(p) /\ t[1].ok /\ t[1].seen # "none") => BlobState = "complete"

\* C17 witness: the second call has returned nil without a copy, after the
\* first call copied the layer.
C17_Witness ==
    /\ fetchCalls[1] = 2
    /\ FetchedNil(1)
    /\ transfers = 1
    /\ \E j \in DOMAIN trace[1] : trace[1][j] = Traced("Exists", TRUE, "complete")
    /\ TracedOps(1) \cap CopyOps = {}

TarballOps ==
    { "ocistore.New", "Exists", "Exists error", "CopyWithProgress", "copied", "Unarchive" }

\* C19: for an empty remote descriptor fetchOCISkeleton makes no store, copy
\* or extraction step and copies nothing; when its calls succeed it has
\* created <cache>/oci/dirs/<sha256 of import URL + component name>, set the
\* tail's relativeToHead to the path of that directory relative to the
\* working directory, and returned nil right after that.
C19_EmptyDescriptorCreatesDirectory ==
    IsEmptyDescriptor(published) =>
        /\ transfers = 0
        /\ \A p \in active :
               LET node == chain[Len(chain) - 1]
                   dir  == << "cache", "oci", "dirs", Sha256Hex(node.url \o node.name) >>
               IN  /\ TracedOps(p) \cap TarballOps = {}
                   /\ Traced("Rel", TRUE, Unseen) \in Range(trace[p]) =>
                          /\ FetchedNil(p)
                          /\ Last(trace[p]) = Traced("Rel", TRUE, Unseen)
                          /\ trace[p][Len(trace[p]) - 1] =
                                 Traced("CreateDirectory dir", TRUE, Unseen)
                          /\ dir \in cacheDirs
                          /\ ic[p].relativeToHead = Rel(cwd, dir)
                   /\ (FetchedNil(p) /\ trace[p][1].ok) =>
                          Traced("Rel", TRUE, Unseen) \in Range(trace[p])

\* C19 witness: fetchOCISkeleton has returned nil for a component without a
\* tarball, with the directory created and the relative path set.
C19_Witness ==
    /\ IsEmptyDescriptor(published)
    /\ cwd = << "home", "package" >>
    /\ FetchedNil(1)
    /\ << "cache", "oci", "dirs", "sha256(oci://registry/skeletoncomponent)" >> \in cacheDirs
    /\ ic[1].relativeToHead =
           << "..", "..", "cache", "oci", "dirs", "sha256(oci://registry/skeletoncomponent)" >>

\* C20: the first step of fetchOCISkeleton finds a remote import exactly when
\* the chain has a second-to-last node and that node's import URL is not
\* empty, whatever the URLs of the other nodes; when it finds none the call
\* returns nil at once: no remote is made, nothing is copied, no directory is
\* created and the tail's relativeToHead stays unset.
C20_OnlyTailPrevIsRemote ==
    \A p \in active :
        LET remoteImport == Len(chain) >= 2 /\ chain[Len(chain) - 1].url # ""
        IN  /\ trace[p] # << >> =>
                   /\ trace[p][1].op = "ContainsOCIImport"
                   /\ trace[p][1].ok <=> remoteImport
            /\ ~remoteImport =>
                   /\ skStage[p] \in { "ContainsOCIImport", "returned" }
                   /\ Len(trace[p]) <= 1
                   /\ fetchErr[p] = Nil
                   /\ ic[p] = [remote |-> "nil", relativeToHead |-> << >>]
                   /\ transfers = 0
                   /\ cacheDirs \subseteq { CachePath }
                   /\ CachePath \in cacheDirs <=> \E d \in Digests : cacheBlobs[d] # "absent"

\* C20 witness: fetchOCISkeleton has returned nil at its first step for a
\* chain of three nodes whose head and tail have an import URL and whose
\* second-to-last node has none.
C20_Witness ==
    /\ Len(chain) = 3
    /\ chain[1].url # ""
    /\ chain[2].url = ""
    /\ chain[3].url # ""
    /\ FetchedNil(1)
    /\ trace[1] = << Traced("ContainsOCIImport", FALSE, BlobState) >>

\* The directory of the remote component in the cache, written out.
ExpectedDir ==
    LET node == chain[Len(chain) - 1]
    IN  << "cache", "oci", "dirs",
           IF published.digest = "" THEN Sha256Hex(node.url \o node.name)
                                    ELSE published.digest >>

\* C21: the tail's relativeToHead is assigned only by a call of
\* fetchOCISkeleton that has created the component's cache directory, and
\* only while it is unset; the value assigned is the path of that directory
\* relative to the working directory; a call that goes past the assignment
\* without error leaves it set, and no later step on the same ImportChain, a
\* later call of fetchOCISkeleton included, gives it another value.
C21_RelativeToHeadSetOnce ==
    [][\A p \in active :
          /\ ic'[p].relativeToHead # ic[p].relativeToHead =>
                 \/ /\ skStage[p] = "Rel"
                    /\ ic[p].relativeToHead = << >>
                    /\ Last(trace[p]) = Traced("CreateDirectory dir", TRUE, Unseen)
                    /\ ExpectedDir \in cacheDirs
                    /\ ic'[p].relativeToHead = Rel(cwd, ExpectedDir)
                 \/ /\ skStage[p] = "returned"
                    /\ ic'[p] = NewImportChain
          /\ (skStage[p] = "Rel" /\ skStage'[p] \in { "Unarchive", "returned" }
                /\ fetchErr'[p] = Nil) => ic'[p].relativeToHead # << >>]_vars

\* C21 witness: a second call of fetchOCISkeleton on the same ImportChain is
\* at the assignment, the working directory is another one than at the
\* first call, and the value the first call set is in place.
C21_Witness ==
    /\ fetchCalls[1] = 2
    /\ skStage[1] = "Rel"
    /\ cwd = << "cache", "work" >>
    /\ ic[1].relativeToHead = Rel(<< "home", "package" >>, ExpectedDir)
    /\ ic[1].relativeToHead # Rel(cwd, ExpectedDir)

\* ------------------------------------------------------------------ C22

\* Assemble returned because a component failed: onFailure() is the last call
\* it made (normal.go:117, 122).
ComponentFailed ==
    /\ returned
    /\ log # << >>
    /\ Last(log).op = "onFailure"

\* C22: every error Assemble returns because a component failed, in its
\* before action, body, after action or success action, names the owning
\* component in its text and keeps the original error as its cause.
C22_ComponentErrorsNamed ==
    ComponentFailed =>
        /\ err # Nil
        /\ ComponentName(Last(log).c) \in Range(err[1])
        /\ Unwrap(err) = pending

\* ------------------------------------------------------------------ C23

\* C23: an I/O error while listing the files of a directory is propagated:
\* Assemble returns an error instead of going on with an incomplete file list.
C23_ListingErrorPropagated ==
    listingErrors # {} => returned /\ err # Nil

\* ------------------------------------------------------------------ C24

\* The calls a run of Output makes up to the publication or the archive of the
\* package when none fails, in order.
OutputSteps ==
    [k \in 1..outCfg.components |-> "Archive"]
      \o << "generateChecksums", "WriteYaml" >>
      \o (IF outCfg.signingKeyPath # "" THEN << "SignPackage" >> ELSE << >>)
      \o (IF IsOCIURL(outCfg.output)
          THEN << "ReferenceFromMetadata", "NewOrasRemote", "PublishPackage" >>
          ELSE << "ArchivePackage" >>)

\* The calls Output made up to the publication or the archive of the package.
OutputCalls ==
    LET made == SelectSeq(outLog, LAMBDA c : c.op \notin { "Unarchive", "OutputSBOMFiles" })
    IN  [k \in DOMAIN made |-> made[k].op]

\* C24: Output archives every component, generates the checksums and stores
\* the aggregate checksum in the package metadata, writes the manifest, signs
\* it only when a signing key is given, then publishes to OCI or creates the
\* final archive, in this order; the written and the signed manifest hold the
\* aggregate checksum of the archived components; a failed call is the last
\* call Output makes.
C24_OutputOrder ==
    /\ Len(OutputCalls) <= Len(OutputSteps)
    /\ OutputCalls = SubSeq(OutputSteps, 1, Len(OutputCalls))
    /\ \A k \in DOMAIN outLog :
           ~outLog[k].ok => k = Len(outLog) /\ outStage = "returned" /\ outErr # Nil
    /\ zarfYAML # Nil =>
           /\ archived = 1..outCfg.components
           /\ zarfYAML.aggregateChecksum = AggregateChecksum(archived)
    /\ signature # Nil => signature = zarfYAML /\ outCfg.signingKeyPath # ""
    /\ delivered # Nil =>
           /\ delivered = Package(IF IsOCIURL(outCfg.output) THEN "oci" ELSE "tarball")
           /\ delivered.zarfYAML # Nil
           /\ outCfg.signingKeyPath # "" <=> delivered.signature # Nil

\* C24 witness: a package of two components was archived, its manifest with
\* the aggregate checksum of the two tarballs written and signed, and then
\* published.
C24_Witness ==
    /\ outStage = "returned"
    /\ outErr = Nil
    /\ outCfg.components = 2
    /\ delivered # Nil
    /\ delivered.to = "oci"
    /\ delivered.components = { 1, 2 }
    /\ delivered.signature = delivered.zarfYAML
    /\ delivered.zarfYAML.aggregateChecksum = AggregateChecksum({ 1, 2 })

\* ------------------------------------------------------------------ C25

\* The package directory of run r: what is at each path after the writes made
\* so far, a later write replacing an earlier one at the same path.
Tree(r) ==
    [ path \in { laid[r][k].path : k \in DOMAIN laid[r] } |->
        LET last == CHOOSE k \in DOMAIN laid[r] :
                        /\ laid[r][k].path = path
                        /\ \A j \in DOMAIN laid[r] : laid[r][j].path = path => j <= k
        IN  [content |-> laid[r][last].content, isDir |-> laid[r][last].isDir,
             mode |-> laid[r][last].mode] ]

\* Some of the three execute bits of mode is set.
HasExecuteBit(mode) == \E bit \in { 1, 8, 64 } : (mode \div bit) % 2 = 1

\* C25: after a component file is resolved, its mode is 0700 when it is
\* declared executable or its destination is a directory, and 0600 otherwise;
\* a regular file not declared executable has no execute bit.
C25_FileModes ==
    \A r \in Runs : \A k \in DOMAIN laid[r] :
        LET e == Entries(layComponent)[k]
            file == layComponent.files[e.idx + 1]
            final == Tree(r)[Destination(layComponent, e)]
        IN  e.kind = "file" /\ laid[r][k].resolved =>
                /\ final.mode = IF file.executable \/ final.isDir THEN 448 ELSE 384
                /\ (~file.executable /\ ~final.isDir) => ~HasExecuteBit(final.mode)

\* ------------------------------------------------------------------ C29

\* C29: two runs of addComponent for the same component definition and the
\* same sources write, at each iteration both complete, the same content with
\* the same mode at the same destination, whatever the order of their steps
\* and whichever run fails where; two runs that return leave the same tree.
C29_LayoutDeterministic ==
    /\ \A k \in DOMAIN laid[1] \cap DOMAIN laid[2] :
           laid[1][k].resolved /\ laid[2][k].resolved => laid[1][k] = laid[2][k]
    /\ (layStage[1] = "returned" /\ layStage[2] = "returned") => Tree(1) = Tree(2)

\* ------------------------------------------------------------------ C30

\* The manifests of the component have pairwise distinct names.
DistinctManifestNames ==
    \A m, n \in DOMAIN layComponent.manifests :
        m # n => layComponent.manifests[m].name # layComponent.manifests[n].name

\* C30: in a component whose manifests have pairwise distinct names, no two
\* manifest files or kustomizations are written to the same destination, so
\* none overwrites the output of another.
C30_ManifestDestinationsDistinct ==
    DistinctManifestNames =>
        \A r \in Runs : \A j, k \in DOMAIN laid[r] :
            (/\ j # k
             /\ Entries(layComponent)[j].kind \in { "manifest", "kustomization" }
             /\ Entries(layComponent)[k].kind \in { "manifest", "kustomization" })
                => laid[r][j].path # laid[r][k].path

\* ------------------------------------------------------------------ C26

\* The text s starts with prefix.
StartsWith(s, prefix) == Len(s) >= Len(prefix) /\ SubSeq(s, 1, Len(prefix)) = prefix

\* C26: for a reference with registry docker.io the repository client
\* targets registry-1.docker.io; the credentials of docker.io and of
\* registry-1.docker.io are looked up under https://index.docker.io/v1/, those
\* of every other registry under its host; the context orasRemote returns
\* carries the scope repository:<repo>:pull,push.
C26_DockerHub ==
    LET given == orasIn.ref.registry
        hub == given \in { "docker.io", "registry-1.docker.io" }
    IN  /\ orasRepo # Nil =>
               StartsWith(orasRepo.reference,
                          (IF hub THEN "registry-1.docker.io" ELSE given) \o "/")
        /\ \A k \in DOMAIN lookups :
               lookups[k] = IF hub THEN "https://index.docker.io/v1/" ELSE given
        /\ (orasIn.entry = "orasRemote" /\ orasStage # "orasRemote") =>
               orasCtx = << "repository:" \o orasIn.ref.repository \o ":pull,push" >>
        /\ (authClient # Nil /\ orasIn.entry = "orasRemote") =>
               authClient.host = IF hub THEN "registry-1.docker.io" ELSE given

\* C26 witness: orasRemote returned a repository for a docker.io reference,
\* with the credential stored under the Docker Hub key.
C26_Witness ==
    /\ orasIn.entry = "orasRemote"
    /\ orasIn.ref.registry = "docker.io"
    /\ orasStage = "returned"
    /\ orasErr = Nil
    /\ orasRepo.reference = "registry-1.docker.io/library/pkg:0.0.1"
    /\ lookups = << "https://index.docker.io/v1/" >>
    /\ authClient.credential = StoredCredential("https://index.docker.io/v1/")
    /\ orasCtx = << "repository:library/pkg:pull,push" >>

\* ------------------------------------------------------------------ C27

\* The text has three parts major.minor.patch and, with major and minor read
\* as numbers, is 1.52.0 or greater: the major version is greater than 1, or
\* it is 1 and the minor version is at least 52.
AtLeast_1_52_0(version) ==
    LET parts == Split(version)
    IN  /\ Len(parts) = 3
        /\ \/ Less(Int64(FALSE, "1"), Atoi(parts[1]))
           \/ /\ Atoi(parts[1]) = Int64(FALSE, "1")
              /\ Geq(Atoi(parts[2]), Int64(FALSE, "52"))

\* C27: Run goes on past the version check exactly when the version is a
\* three-part version that is 1.52.0 or greater, and returns the error
\* "invalid version ... must be at least 1.52.0" for every other version.
C27_VersionGate ==
    /\ bbStage \in { "getFlux", "TemplateChart", "FindImagesForChartRepo",
                     "addBigBangManifests" } => AtLeast_1_52_0(bbVersion)
    /\ (bbStage = "returned" /\ ~HasPrefix(bbErr, << "unable to create charts directory" >>)
          /\ ~HasPrefix(bbErr, << "unable to create manifests directory" >>)) =>
           (AtLeast_1_52_0(bbVersion) <=>
               bbErr # << << "invalid version:", bbVersion, "must be at least 1.52.0" >> >>)

\* ------------------------------------------------------------------ C28

\* C28: with the tools of NewConcurrencyTools(n) and n workers that each send
\* at most one message on each channel and then call Done, no worker is ever
\* blocked at a send, also after the coordinator stopped receiving at the
\* first error; every worker finishes and WaitGroup.Wait returns.
C28_NoWorkerBlocks ==
    /\ [](\A w \in DOMAIN wpc : ~Blocked(w))
    /\ [](waitGroup = Cardinality({ w \in DOMAIN wpc : wpc[w] # "finished" }))
    /\ <>[](coordinator = "returned" /\ \A w \in DOMAIN wpc : wpc[w] = "finished")

\* C28 witness: the coordinator stopped at the first error, the other worker
\* sent its error after that, and Wait has returned with that error unread.
C28_Witness ==
    /\ coordinator = "returned"
    /\ ctxDone
    /\ Len(errorChan) = 1
    /\ DOMAIN wpc = { 1, 2 }
    /\ \A w \in DOMAIN wpc : wpc[w] = "finished" /\ plan[w] = { "progress", "error" }

\* The positions of log at which onFailure actions ran.
OnFailureRuns == { j \in DOMAIN log : log[j].op = "onFailure" }

\* The call at position j of log is one whose failure makes Assemble run the
\* failure actions: a step of addComponent, or the success actions.
FailureActionTrigger(j) ==
    /\ ~log[j].ok
    /\ IsAddComponentStep(log[j]) \/ log[j].op = "onSuccess"

\* C31: the onFailure actions of a component run right after a failed step of
\* its addComponent or its failed success actions, every such failure is
\* followed by them before Assemble returns, they run at most once per
\* component, and no other call (a successful one, the SBOM file listing, image
\* reference parsing, image pulling, SBOM cataloging) is followed by them.
C31_OnFailureExactlyOnFailure ==
    /\ \A j \in OnFailureRuns :
            /\ j > 1
            /\ FailureActionTrigger(j - 1)
            /\ log[j - 1].c = log[j].c
    /\ \A j \in DOMAIN log :
            FailureActionTrigger(j) =>
                IF j = Len(log)
                THEN ~returned /\ stage \in { "addComponentFailed", "onSuccessFailed" }
                ELSE j + 1 \in OnFailureRuns
    /\ \A j, l \in OnFailureRuns : log[j].c = log[l].c => j = l

\* C31 witness: Assemble has returned after the success actions of its second
\* component failed: the failure actions ran for that component only.
C31_Witness ==
    /\ returned
    /\ Len(log) >= 2
    /\ Last(log).op = "onFailure"
    /\ Last(log).c = 2
    /\ log[Len(log) - 1].op = "onSuccess"
    /\ OnFailureRuns = { Len(log) }

\* The positions of log at which the success actions of component k ran.
OnSuccessRuns(k) == { j \in DOMAIN log : log[j].op = "onSuccess" /\ log[j].c = k }

\* C32: the success actions of a component run at most once, right after its
\* after actions succeeded at the end of a complete addComponent (create,
\* before actions, every declared body step, after actions, all without
\* error), and before every call made for a later component; so a component
\* with a failed addComponent step has no success actions run.
C32_OnSuccessAfterAddComponent ==
    \A k \in DOMAIN Components :
        LET runs == OnSuccessRuns(k)
            steps == StepsOf(k)
        IN  /\ Cardinality(runs) <= 1
            /\ \A j \in runs :
                   /\ j > 1
                   /\ log[j - 1].op = "after"
                   /\ log[j - 1].c = k
                   /\ Len(steps) = Len(DeclaredSteps(Components[k]))
                   /\ \A x \in DOMAIN steps : steps[x].ok
                   /\ \A l \in DOMAIN log : log[l].c > k => l > j

\* C32 witness: the success actions of the first component, which declares
\* content, ran and a call for the second component followed.
C32_Witness ==
    /\ OnSuccessRuns(1) # { }
    /\ ComponentSize(Components[1]) >= 2
    /\ \E l \in DOMAIN log : log[l].c = 2

\* The steps of the running call of execution p at which getRemote returned a
\* remote without error: the remote the chain held already, or the new one
\* after ResolveRoot.
GetRemoteSucceeded(p) ==
    { j \in DOMAIN trace[p] : trace[p][j].op \in { "getRemote", "ResolveRoot" } /\ trace[p][j].ok }

\* C33: in every call of getRemote on a chain, also one made after an earlier
\* call on that chain failed, a return without error returns a remote whose
\* root was resolved.
C33_ReturnedRemoteResolved ==
    \A p \in active : GetRemoteSucceeded(p) # { } => ic[p].remote = "resolved"

\* The steps of the current pull that fetch, create or write a layer.
LayerTransferOps == { "FetchAll", "Create", "Write" }

\* C34: when a pull returns nil, the file at the path of every layer of the
\* manifest (or artifact) exists and has the size of the layer's descriptor;
\* in every pull the layers are examined in manifest order, each step for a
\* layer being for the layer of the step before or the next one, and a failed
\* fetch, create or write is the last step of the pull: the pull returns its
\* error and no later layer is examined or fetched.
C34_SuccessMeansAllLayersPresent ==
    /\ PullSucceeded =>
           /\ layers = ManifestLayers(registry)
           /\ \A k \in DOMAIN layers :
                  /\ FileAt(k).exists
                  /\ Len(FileAt(k).data) = layers[k].size
    /\ \A j \in DOMAIN pullLog :
           LET e == pullLog[j]
           IN  /\ (e.layer >= 1 /\ j > 1) =>
                      \/ pullLog[j - 1].layer = e.layer
                      \/ /\ pullLog[j - 1].layer = e.layer - 1
                         /\ e.op = "Stat"
               /\ (e.op \in LayerTransferOps /\ ~e.ok) =>
                      /\ j = Len(pullLog)
                      /\ pullStage = "returned"
                      /\ pullErr = NewError(e.op)

\* C34 witness: a pull of two layers of one title, of two bytes and of one,
\* has returned nil and the file of that title has one byte.
C34_Witness ==
    /\ PullSucceeded
    /\ Len(layers) = 2
    /\ Path(layers[1]) = Path(layers[2])
    /\ layers[1].size = 2
    /\ layers[2].size = 1
    /\ FileAt(1) = File(Content(2, 1))

\* The elements of sequence s.
Elements(s) == { s[j] : j \in DOMAIN s }

\* C35: when LoadPackageDefinition returns without error, differential or
\* not, the warnings it returns hold every warning that composing the
\* components and filling the template produced.
C35_WarningsReturned ==
    (LoadReturned /\ loadResult.err = Nil) =>
        Elements(loadCfg.composeWarnings) \cup Elements(loadCfg.templateWarnings)
            \subseteq Elements(loadResult.warnings)

\* The Spinners whose printer is spinning.
Spinning == { p \in DOMAIN spinners : spinners[p].printer /\ spinners[p].isActive }

\* The Spinners the running addComponent made.
MadeByAddComponent ==
    { spLog[j].on : j \in { l \in DOMAIN spLog : spLog[l].made = 1 } }

\* C36: no printer spins but that of the active spinner, so at most one does;
\* NewProgressSpinner called while a spinner is active returns that spinner
\* and makes none, and called while none is active it makes a new Spinner,
\* which becomes the active one; after Success on a spinner (Successf, then
\* Stop) none is active and its printer does not spin; and when addComponent
\* has returned, with or without error, no spinner it made is active or
\* spinning.
C36_OneActiveSpinner ==
    /\ Spinning \subseteq { activeSpinner }
    /\ \A j \in DOMAIN spLog :
           LET e == spLog[j]
           IN  /\ (e.op = "NewProgressSpinner" /\ e.before # 0) =>
                      e.on = e.before /\ e.made = 0 /\ e.after = e.before
               /\ (e.op = "NewProgressSpinner" /\ e.before = 0) =>
                      /\ e.made = 1
                      /\ e.after = e.on
                      /\ \A l \in 1..(j - 1) : spLog[l].on # e.on
                      /\ ~spCfg.callerSpinner \/ e.on # 1
               /\ e.op = "Success" => e.after = 0
               /\ (e.op = "Success" /\ j = Len(spLog) /\ spStage = "section") =>
                      activeSpinner = 0 /\ Spinning = { }
    /\ spStage = "returned" =>
           \A p \in MadeByAddComponent : p # activeSpinner /\ p \notin Spinning

\* C36 witness: addComponent has returned an error of its third section after
\* it was called with an active spinner of its caller, which its first section
\* got from NewProgressSpinner and stopped, and its other two sections made a
\* spinner each.
C36_Witness ==
    /\ spStage = "returned"
    /\ spCfg.callerSpinner
    /\ ~spCfg.noProgress
    /\ Len(spLog) = 5
    /\ spLog[1].op = "NewProgressSpinner" /\ spLog[1].before = 1 /\ spLog[1].on = 1
    /\ spLog[3].op = "NewProgressSpinner" /\ spLog[3].made = 1
    /\ spLog[5].op = "NewProgressSpinner" /\ spLog[5].made = 1
    /\ Cardinality(MadeByAddComponent) = 2

\* renderText takes a step: the render goroutine of some MultiSpinner does, or
\* the Stop the program is in assigns the Status of a row.
RenderTextStep == renderer' # renderer \/ caller.pc = "Status"

\* C37: a row that RowSuccess or RowError set to the success or error status
\* keeps that status whatever the render goroutines do: no step of renderText
\* changes the Status of a row that holds the one RowSuccess or RowError
\* gave it.
C37_SettledRowsKeepStatus ==
    [][RenderTextStep =>
         \A at \in settled :
             /\ multi[at[1]].rows[at[2]] \in { RowStatusSuccess, RowStatusError }
             /\ multi'[at[1]].rows[at[2]] = multi[at[1]].rows[at[2]]]_vars

\* The render goroutine of MultiSpinner m has terminated, by itself or with
\* the program.
RenderDone(m) == Panicked \/ (m \in DOMAIN renderer /\ renderer[m] \in { "none", "done" })

\* The render goroutine of MultiSpinner m calls m.area.Update(text).
AreaUpdate(m) == renderer[m] = "Update" /\ renderer'[m] = "for"

\* C38: once Stop was called on a MultiSpinner, its render goroutine
\* eventually terminates, for good, and never updates the area again,
\* whatever is called afterwards; and NewMultiSpinner called while a
\* MultiSpinner is active returns that MultiSpinner and makes no MultiSpinner
\* and no goroutine.
C38_RenderEndsAfterStop ==
    /\ \A m \in 1..MaxMultiSpinners :
           [](m \in DOMAIN multi /\ multi[m].stopCalled => <>[](RenderDone(m)))
    /\ [][\A m \in DOMAIN renderer : AreaUpdate(m) => ~multi[m].stopCalled]_vars
    /\ [](activeMultiSpinner # 0 => NewMultiSpinnerResult = activeMultiSpinner)
    /\ [][activeMultiSpinner # 0 =>
             Len(multi') = Len(multi) /\ Len(renderer') = Len(renderer)]_vars

\* The resources of the template that state the kind GitRepository and a
\* URL that is not empty.
GitRepositories ==
    { n \in DOMAIN fuYamls : fuYamls[n].kind = "GitRepository" /\ fuYamls[n].url # "" }

\* The first of commit, semver, tag and branch of resource s that is not
\* empty, "master" when all four are empty.
FirstNonEmpty(s) ==
    LET refs == << s.commit, s.semver, s.tag, s.branch >>
        set == { f \in DOMAIN refs : refs[f] # "" }
    IN  IF set = { }
        THEN "master"
        ELSE refs[CHOOSE f \in set : \A g \in set : f <= g]

\* The result of findURLs has one entry url@ref for each resource of set S
\* and no other entry, the entries being in the order of the resources.
ListsInOrder(S) ==
    /\ Len(fuUrls) = Cardinality(S)
    /\ \A n \in S :
           fuUrls[Cardinality({ l \in S : l <= n })]
               = Sprintf(fuYamls[n].url, FirstNonEmpty(fuYamls[n]))

\* C39: findURLs returns, in document order, one entry url@ref for every
\* resource of kind GitRepository with a non-empty URL and nothing for any
\* other resource, ref being the first non-empty of the reference's commit,
\* semver, tag and branch, and "master" when all four are empty.
C39_EveryGitRepositoryListed ==
    fuStage \in { "returned", "panic" } =>
        fuStage = "returned" /\ ListsInOrder(GitRepositories)

\* C39 witness: findURLs has panicked on a template whose one resource
\* decodes, is of kind GitRepository, has a URL and states no spec.ref.
C39_Witness ==
    /\ fuStage = "panic"
    /\ Len(fuYamls) = 1
    /\ ~fuYamls[1].err
    /\ fuYamls[1].kind = "GitRepository"
    /\ fuYamls[1].url # ""
    /\ ~fuYamls[1].ref

====
